---- MODULE Spec2Model ----
(***************************************************************************)
(* A model of the keyfile package (format "KF\x02"): the binary packet     *)
(* codec Parse/Encode and the container operations New, Get, Set, Random.  *)
(*                                                                         *)
(* Bytes are integers 0..255 and byte strings are sequences of bytes.      *)
(* Errors are modelled as the chain errors.Is walks: a sequence of error   *)
(* identities, outermost wrapper first; the nil error is <<>>.             *)
(*                                                                         *)
(* The external primitives are idealised:                                  *)
(*   - scrypt.Key is an injective function of (passphrase, salt);          *)
(*   - AES-GCM is an ideal AEAD: Open succeeds exactly on a                *)
(*     (key, nonce, ciphertext) triple that Seal produced, and both Seal   *)
(*     and Open panic on a nonce whose length is not the GCM nonce size;   *)
(*   - rand.Read either fails or fills the buffer with bytes determined    *)
(*     by a seed drawn from a small set; a "fresh" source never returns    *)
(*     the same seed twice.                                                *)
(***************************************************************************)
EXTENDS Integers, Sequences, FiniteSets, TLC

\* ------------------------------------------------------------------ bounds
MaxDraws == 5       \* successful reads of the random source per behaviour
MaxSecret == 1      \* the longest secret passed to Set
MaxRandom == 1      \* the largest nbytes passed to Random
MaxLenByte == 2     \* enumerated packets declare slen, nlen in 0..MaxLenByte
MaxBody == 4        \* enumerated packets carry 0..MaxBody bytes after the lengths
MaxPass == 1        \* the longest passphrase

\* ------------------------------------------------------- program constants
keySaltBytes == 16
gcmNonceSize == 12
gcmTagSize == 16
magic == <<75, 70, 2>>

ErrBadPassphrase == "invalid passphrase"
ErrNoKey == "no key is present"
ErrBadPacket == "parse: bad packet"
ErrInvalidSize == "invalid secret size (must be positive)"
ErrAuthFailed == "cipher: message authentication failed"
ErrRandRead == "rand: read failed"

NoErr == <<>>

\* errors.Is(err, target): target occurs in err's chain.
ErrorsIs(err, target) == \E i \in 1..Len(err) : err[i] = target

\* fmt.Errorf("msg: %w", err) and fmt.Errorf("%w: msg", err)
Wrap(msg, err) == <<msg>> \o err

\* ----------------------------------------------------------- byte strings
\* s[lo:hi] of Go, 0-based, half-open; the caller has checked the bounds.
Slice(s, lo, hi) == SubSeq(s, lo + 1, hi)

\* bytes.HasPrefix
HasPrefix(s, p) == Len(s) >= Len(p) /\ SubSeq(s, 1, Len(p)) = p

\* byte(n): conversion of an int to uint8
ToByte(n) == n % 256

RECURSIVE SumBytes(_)
SumBytes(s) == IF s = <<>> THEN 0 ELSE s[1] + SumBytes(Tail(s))

\* ------------------------------------------------------------- containers
\* type File struct { salt, nonce, data []byte }
File(salt, nonce, data) == [salt |-> salt, nonce |-> nonce, data |-> data]

\* New(): the zero File
New == File(<<>>, <<>>, <<>>)

\* ------------------------------------------------------------------ Parse
\* The result of a call: a File, an error, or a run-time panic (a slice
\* expression out of range).
ParseOK(f) == [kind |-> "ok", file |-> f, err |-> NoErr]
ParseErr(msg) == [kind |-> "err", file |-> New, err |-> Wrap(msg, <<ErrBadPacket>>)]
ParsePanic == [kind |-> "panic", file |-> New, err |-> NoErr]

\* Parse with the salt sliced one byte early (data[1 : 1+slen]).
ParseSaltOffByOne(input) ==
  IF ~HasPrefix(input, magic) THEN ParseErr("invalid magic")
  ELSE LET data == Slice(input, Len(magic), Len(input)) IN
    IF Len(data) < 2 THEN ParseErr("truncated packet")
    ELSE LET slen == data[1] IN
      IF 2 + slen > Len(data) THEN ParseErr("invalid salt")
      ELSE LET nlen == data[2] IN
        IF 2 + nlen + nlen > Len(data) THEN ParseErr("invalid nonce")
        ELSE IF 2 + slen + nlen > Len(data) THEN ParsePanic
        ELSE ParseOK(File(Slice(data, 1, 1 + slen),
                          Slice(data, 2 + slen, 2 + slen + nlen),
                          Slice(data, 2 + slen + nlen, Len(data))))

Parse(input) ==
  IF ~HasPrefix(input, magic) THEN ParseErr("invalid magic")
  ELSE LET data == Slice(input, Len(magic), Len(input)) IN
    IF Len(data) < 2 THEN ParseErr("truncated packet")
    ELSE LET slen == data[1] IN
      IF 2 + slen > Len(data) THEN ParseErr("invalid salt")
      ELSE LET nlen == data[2] IN
        IF 2 + nlen + nlen > Len(data) THEN ParseErr("invalid nonce")
        ELSE IF 2 + slen + nlen > Len(data) THEN ParsePanic  \* data[2+slen+nlen:]
        ELSE ParseOK(File(Slice(data, 2, 2 + slen),
                          Slice(data, 2 + slen, 2 + slen + nlen),
                          Slice(data, 2 + slen + nlen, Len(data))))

\* ----------------------------------------------------------------- Encode
\* Encode with the nonce copied before the salt.
EncodeNonceFirst(f) ==
  LET slen == Len(f.salt)
      nlen == Len(f.nonce)
      size == Len(magic) + 2 + slen + nlen + Len(f.data)
      body == f.nonce \o f.salt \o f.data
  IN  [i \in 1..size |->
         IF i <= Len(magic) THEN magic[i]
         ELSE IF i = Len(magic) + 1 THEN ToByte(slen)
         ELSE IF i = Len(magic) + 2 THEN ToByte(nlen)
         ELSE body[i - Len(magic) - 2]]

\* Encode with the two length bytes exchanged.
EncodeLengthsSwapped(f) ==
  LET slen == Len(f.salt)
      nlen == Len(f.nonce)
      size == Len(magic) + 2 + slen + nlen + Len(f.data)
      body == f.salt \o f.nonce \o f.data
  IN  [i \in 1..size |->
         IF i <= Len(magic) THEN magic[i]
         ELSE IF i = Len(magic) + 1 THEN ToByte(nlen)
         ELSE IF i = Len(magic) + 2 THEN ToByte(slen)
         ELSE body[i - Len(magic) - 2]]

\* Encode into a buffer sized without the ciphertext, which copy then drops.
EncodeShortBuffer(f) ==
  LET slen == Len(f.salt)
      nlen == Len(f.nonce)
      size == Len(magic) + 2 + slen + nlen
      body == f.salt \o f.nonce \o f.data
  IN  [i \in 1..size |->
         IF i <= Len(magic) THEN magic[i]
         ELSE IF i = Len(magic) + 1 THEN ToByte(slen)
         ELSE IF i = Len(magic) + 2 THEN ToByte(nlen)
         ELSE body[i - Len(magic) - 2]]

\* copy(dst, src) into a zeroed tail: the bytes of src, as far as dst has room.
Encode(f) ==
  LET slen == Len(f.salt)
      nlen == Len(f.nonce)
      size == Len(magic) + 2 + slen + nlen + Len(f.data)
      body == f.salt \o f.nonce \o f.data
  IN  [i \in 1..size |->
         IF i <= Len(magic) THEN magic[i]
         ELSE IF i = Len(magic) + 1 THEN ToByte(slen)
         ELSE IF i = Len(magic) + 2 THEN ToByte(nlen)
         ELSE body[i - Len(magic) - 2]]

\* ---------------------------------------------------------- random source
\* The n bytes a successful read with the given seed delivers.
RandBytes(seed, n) == [i \in 1..n |-> (16 * seed + i) % 256]

\* make([]byte, n)
Zeros(n) == [i \in 1..n |-> 0]

\* ----------------------------------------------------------------- crypto
\* scrypt.Key(passphrase, salt, N, r, p, 32): deterministic and, as an
\* idealisation, injective in (passphrase, salt).
scryptKey(passphrase, salt) == [pass |-> passphrase, salt |-> salt]

NoKey == scryptKey(<<>>, <<>>)

\* aead.Seal(nil, nonce, plaintext, nil): the masked plaintext followed by a
\* gcmTagSize-byte tag.
Seal(key, nonce, plaintext) ==
  LET ks == (SumBytes(key.pass) + SumBytes(key.salt) + SumBytes(nonce)) % 256
      body == [i \in 1..Len(plaintext) |-> (plaintext[i] + ks + i) % 256]
      tag == [j \in 1..gcmTagSize |->
                IF j <= Len(nonce) THEN (nonce[j] + j) % 256
                ELSE (ks + SumBytes(body) + Len(body) + j) % 256]
  IN  body \o tag

\* One use of Seal, as remembered by the ideal AEAD.
Sealed(key, nonce, plaintext) ==
  [key |-> key, nonce |-> nonce, pt |-> plaintext, ct |-> Seal(key, nonce, plaintext)]

\* Open that does not authenticate the nonce.
OpenIgnoresNonce(seals, key, nonce, ciphertext) ==
  LET hits == {e \in seals : e.key = key /\ e.ct = ciphertext}
  IN  IF hits = {} THEN [ok |-> FALSE, pt |-> <<>>]
      ELSE [ok |-> TRUE, pt |-> (CHOOSE e \in hits : TRUE).pt]

\* aead.Open(nil, nonce, ciphertext, nil) against the seals made so far.
Open(seals, key, nonce, ciphertext) ==
  LET hits == {e \in seals : e.key = key /\ e.nonce = nonce /\ e.ct = ciphertext}
  IN  IF hits = {} THEN [ok |-> FALSE, pt |-> <<>>]
      ELSE [ok |-> TRUE, pt |-> (CHOOSE e \in hits : TRUE).pt]

\* ------------------------------------------------------------- operations
\* The outcome of a method call on a File: the File afterwards, the returned
\* value and error, whether the call panicked, whether scrypt ran, the seeds
\* read from the random source and the seals made.
Outcome(f, val, err, panic, kdf, drew, seals) ==
  [f |-> f, val |-> val, err |-> err, panic |-> panic, kdf |-> kdf,
   drew |-> drew, seals |-> seals]

\* keySalt without the test for an existing salt: it always reads a new one.
keySaltAlways(f, rd) ==
  IF ~rd.ok
  THEN [f |-> f, salt |-> <<>>, err |-> <<ErrRandRead>>, drew |-> <<>>]
  ELSE LET buf == RandBytes(rd.seed, keySaltBytes)
       IN  [f |-> [f EXCEPT !.salt = buf], salt |-> buf, err |-> NoErr,
            drew |-> <<rd.seed>>]

\* keySalt with a salt too long for a one-byte length.
keySaltLong(f, rd) ==
  IF Len(f.salt) = 0
  THEN IF ~rd.ok
       THEN [f |-> f, salt |-> <<>>, err |-> <<ErrRandRead>>, drew |-> <<>>]
       ELSE LET buf == RandBytes(rd.seed, 256 + keySaltBytes)
            IN  [f |-> [f EXCEPT !.salt = buf], salt |-> buf, err |-> NoErr,
                 drew |-> <<rd.seed>>]
  ELSE [f |-> f, salt |-> f.salt, err |-> NoErr, drew |-> <<>>]

\* (f *File) keySalt(); rd is what rand.Read does if it is called.
keySalt(f, rd) ==
  IF Len(f.salt) = 0
  THEN IF ~rd.ok
       THEN [f |-> f, salt |-> <<>>, err |-> <<ErrRandRead>>, drew |-> <<>>]
       ELSE LET buf == RandBytes(rd.seed, keySaltBytes)
            IN  [f |-> [f EXCEPT !.salt = buf], salt |-> buf, err |-> NoErr,
                 drew |-> <<rd.seed>>]
  ELSE [f |-> f, salt |-> f.salt, err |-> NoErr, drew |-> <<>>]

\* (f *File) keyCipher(passphrase)
keyCipher(f, passphrase, rd) ==
  LET s == keySalt(f, rd)
  IN  IF s.err # NoErr
      THEN [f |-> s.f, key |-> NoKey, err |-> Wrap("key salt", s.err),
            kdf |-> FALSE, drew |-> s.drew]
      ELSE [f |-> s.f, key |-> scryptKey(passphrase, s.salt), err |-> NoErr,
            kdf |-> TRUE, drew |-> s.drew]

\* Get with the guard "salt and nonce both empty" in place of "either empty".
GetGuardBoth(f, passphrase, rd, seals) ==
  IF Len(f.salt) = 0 /\ Len(f.nonce) = 0
  THEN Outcome(f, <<>>, <<ErrNoKey>>, FALSE, FALSE, <<>>, <<>>)
  ELSE LET c == keyCipher(f, passphrase, rd) IN
    IF c.err # NoErr
    THEN Outcome(c.f, <<>>, Wrap("keyfile init", c.err), FALSE, c.kdf, c.drew, <<>>)
    ELSE IF Len(c.f.nonce) # gcmNonceSize
    THEN Outcome(c.f, <<>>, NoErr, TRUE, c.kdf, c.drew, <<>>)
    ELSE LET dec == Open(seals, c.key, c.f.nonce, c.f.data) IN
      IF ~dec.ok
      THEN Outcome(c.f, <<>>, Wrap("keyfile verify", <<ErrAuthFailed>>), FALSE,
                   c.kdf, c.drew, <<>>)
      ELSE Outcome(c.f, dec.pt, NoErr, FALSE, c.kdf, c.drew, <<>>)

\* (f *File) Get(passphrase)
Get(f, passphrase, rd, seals) ==
  IF Len(f.salt) = 0 \/ Len(f.nonce) = 0
  THEN Outcome(f, <<>>, <<ErrNoKey>>, FALSE, FALSE, <<>>, <<>>)
  ELSE LET c == keyCipher(f, passphrase, rd) IN
    IF c.err # NoErr
    THEN Outcome(c.f, <<>>, Wrap("keyfile init", c.err), FALSE, c.kdf, c.drew, <<>>)
    ELSE IF Len(c.f.nonce) # gcmNonceSize
    THEN Outcome(c.f, <<>>, NoErr, TRUE, c.kdf, c.drew, <<>>)
    ELSE LET dec == Open(seals, c.key, c.f.nonce, c.f.data) IN
      IF ~dec.ok
      THEN Outcome(c.f, <<>>, Wrap("keyfile verify", <<ErrAuthFailed>>), FALSE,
                   c.kdf, c.drew, <<>>)
      ELSE Outcome(c.f, dec.pt, NoErr, FALSE, c.kdf, c.drew, <<>>)

\* Set that resets nonce and data but keeps an existing salt.
SetKeepSalt(f, passphrase, secret, rs, rn) ==
  LET c == keyCipher(File(f.salt, <<>>, <<>>), passphrase, rs) IN
    IF c.err # NoErr
    THEN Outcome(c.f, <<>>, Wrap("keyfile init", c.err), FALSE, c.kdf, c.drew, <<>>)
    ELSE IF ~rn.ok
    THEN Outcome([c.f EXCEPT !.nonce = Zeros(gcmNonceSize)], <<>>, <<ErrRandRead>>,
                 FALSE, c.kdf, c.drew, <<>>)
    ELSE LET nonce == RandBytes(rn.seed, gcmNonceSize)
             e == Sealed(c.key, nonce, secret)
         IN  Outcome(File(c.f.salt, nonce, e.ct), <<>>, NoErr, FALSE, c.kdf,
                     c.drew \o <<rn.seed>>, <<e>>)

\* Set that reads a nonce only if the container has none of the right size.
SetKeepNonce(f, passphrase, secret, rs, rn) ==
  LET c == keyCipher(New, passphrase, rs) IN
    IF c.err # NoErr
    THEN Outcome(c.f, <<>>, Wrap("keyfile init", c.err), FALSE, c.kdf, c.drew, <<>>)
    ELSE IF Len(f.nonce) = gcmNonceSize
    THEN LET e == Sealed(c.key, f.nonce, secret)
         IN  Outcome(File(c.f.salt, f.nonce, e.ct), <<>>, NoErr, FALSE, c.kdf,
                     c.drew, <<e>>)
    ELSE IF ~rn.ok
    THEN Outcome([c.f EXCEPT !.nonce = Zeros(gcmNonceSize)], <<>>, <<ErrRandRead>>,
                 FALSE, c.kdf, c.drew, <<>>)
    ELSE LET nonce == RandBytes(rn.seed, gcmNonceSize)
             e == Sealed(c.key, nonce, secret)
         IN  Outcome(File(c.f.salt, nonce, e.ct), <<>>, NoErr, FALSE, c.kdf,
                     c.drew \o <<rn.seed>>, <<e>>)

\* Set that assigns the nonce only after its read succeeded.
SetNonceAfterRead(f, passphrase, secret, rs, rn) ==
  LET c == keyCipher(New, passphrase, rs) IN
    IF c.err # NoErr
    THEN Outcome(c.f, <<>>, Wrap("keyfile init", c.err), FALSE, c.kdf, c.drew, <<>>)
    ELSE IF ~rn.ok
    THEN Outcome(c.f, <<>>, <<ErrRandRead>>, FALSE, c.kdf, c.drew, <<>>)
    ELSE LET nonce == RandBytes(rn.seed, gcmNonceSize)
             e == Sealed(c.key, nonce, secret)
         IN  Outcome(File(c.f.salt, nonce, e.ct), <<>>, NoErr, FALSE, c.kdf,
                     c.drew \o <<rn.seed>>, <<e>>)

\* Set that keeps a ciphertext the container already holds.
SetOnce(f, passphrase, secret, rs, rn) ==
  IF f.data # <<>>
  THEN Outcome(f, <<>>, NoErr, FALSE, FALSE, <<>>, <<>>)
  ELSE LET c == keyCipher(New, passphrase, rs) IN
    IF c.err # NoErr
    THEN Outcome(c.f, <<>>, Wrap("keyfile init", c.err), FALSE, c.kdf, c.drew, <<>>)
    ELSE IF ~rn.ok
    THEN Outcome([c.f EXCEPT !.nonce = Zeros(gcmNonceSize)], <<>>, <<ErrRandRead>>,
                 FALSE, c.kdf, c.drew, <<>>)
    ELSE LET nonce == RandBytes(rn.seed, gcmNonceSize)
             e == Sealed(c.key, nonce, secret)
         IN  Outcome(File(c.f.salt, nonce, e.ct), <<>>, NoErr, FALSE, c.kdf,
                     c.drew \o <<rn.seed>>, <<e>>)

\* Set that makes the nonce as long as the salt.
SetSaltSizedNonce(f, passphrase, secret, rs, rn) ==
  LET c == keyCipher(New, passphrase, rs) IN
    IF c.err # NoErr
    THEN Outcome(c.f, <<>>, Wrap("keyfile init", c.err), FALSE, c.kdf, c.drew, <<>>)
    ELSE IF ~rn.ok
    THEN Outcome([c.f EXCEPT !.nonce = Zeros(keySaltBytes)], <<>>, <<ErrRandRead>>,
                 FALSE, c.kdf, c.drew, <<>>)
    ELSE LET nonce == RandBytes(rn.seed, keySaltBytes)
             e == Sealed(c.key, nonce, secret)
         IN  Outcome(File(c.f.salt, nonce, e.ct), <<>>, NoErr, FALSE, c.kdf,
                     c.drew \o <<rn.seed>>, <<e>>)

\* (f *File) Set(passphrase, secret); rs and rn are what rand.Read does for
\* the salt and for the nonce.
Set(f, passphrase, secret, rs, rn) ==
  LET c == keyCipher(New, passphrase, rs) IN
    IF c.err # NoErr
    THEN Outcome(c.f, <<>>, Wrap("keyfile init", c.err), FALSE, c.kdf, c.drew, <<>>)
    ELSE IF ~rn.ok
    THEN Outcome([c.f EXCEPT !.nonce = Zeros(gcmNonceSize)], <<>>, <<ErrRandRead>>,
                 FALSE, c.kdf, c.drew, <<>>)
    ELSE LET nonce == RandBytes(rn.seed, gcmNonceSize)
             e == Sealed(c.key, nonce, secret)
         IN  Outcome(File(c.f.salt, nonce, e.ct), <<>>, NoErr, FALSE, c.kdf,
                     c.drew \o <<rn.seed>>, <<e>>)

\* Random that rejects only a negative size.
\* Random that resets the container before it tests the size.
RandomResetsFirst(f, passphrase, nbytes, rx, rs, rn) ==
  IF nbytes <= 0
  THEN Outcome(New, <<>>, <<ErrInvalidSize>>, FALSE, FALSE, <<>>, <<>>)
  ELSE IF ~rx.ok
  THEN Outcome(f, <<>>, <<ErrRandRead>>, FALSE, FALSE, <<>>, <<>>)
  ELSE LET secret == RandBytes(rx.seed, nbytes)
           r == Set(f, passphrase, secret, rs, rn)
       IN  [r EXCEPT !.val = IF r.err = NoErr THEN secret ELSE <<>>,
                     !.drew = <<rx.seed>> \o r.drew]

RandomAllowsZero(f, passphrase, nbytes, rx, rs, rn) ==
  IF nbytes < 0
  THEN Outcome(f, <<>>, <<ErrInvalidSize>>, FALSE, FALSE, <<>>, <<>>)
  ELSE IF ~rx.ok
  THEN Outcome(f, <<>>, <<ErrRandRead>>, FALSE, FALSE, <<>>, <<>>)
  ELSE LET secret == RandBytes(rx.seed, nbytes)
           r == Set(f, passphrase, secret, rs, rn)
       IN  [r EXCEPT !.val = IF r.err = NoErr THEN secret ELSE <<>>,
                     !.drew = <<rx.seed>> \o r.drew]

\* (f *File) Random(passphrase, nbytes); rx is what rand.Read does for the
\* secret.
Random(f, passphrase, nbytes, rx, rs, rn) ==
  IF nbytes <= 0
  THEN Outcome(f, <<>>, <<ErrInvalidSize>>, FALSE, FALSE, <<>>, <<>>)
  ELSE IF ~rx.ok
  THEN Outcome(f, <<>>, <<ErrRandRead>>, FALSE, FALSE, <<>>, <<>>)
  ELSE LET secret == RandBytes(rx.seed, nbytes)
           r == Set(f, passphrase, secret, rs, rn)
       IN  [r EXCEPT !.val = IF r.err = NoErr THEN secret ELSE <<>>,
                     !.drew = <<rx.seed>> \o r.drew]

\* ------------------------------------------- the KF\x01 format (CRC, CTR)
magicV1 == <<75, 70, 1>>

aesBlockSize == 16

\* A File of the KF\x01 package
FileV1(init, salt, data) == [init |-> init, salt |-> salt, data |-> data]

NewV1 == FileV1(<<>>, <<>>, <<>>)

\* The exclusive or of two n-bit numbers.
RECURSIVE BitXor(_, _, _)
BitXor(a, b, n) ==
  IF n = 0 THEN 0
  ELSE (((a % 2) + (b % 2)) % 2) + 2 * BitXor(a \div 2, b \div 2, n - 1)

\* The i-th byte (from 0) of the key stream of the CTR cipher made from the
\* passphrase, the salt and the initialization vector: some byte that the
\* three and the position determine, standing for scrypt and AES-256.
KeyStreamV1(key, i) ==
  (7 * SumBytes(key.pass) + 13 * SumBytes(key.salt) + 17 * SumBytes(key.iv)
     + 31 * i + 101) % 256

\* ctr.XORKeyStream(dst, src) for a stream that has produced pos bytes
XORKeyStream(key, pos, src) ==
  [i \in 1..Len(src) |-> BitXor(src[i], KeyStreamV1(key, pos + i - 1), 8)]

\* The sum of w * i + s[i] + 1 over the positions lo..hi of s.
RECURSIVE SumOver(_, _, _, _)
SumOver(s, w, lo, hi) ==
  IF lo > hi THEN 0
  ELSE IF lo = hi THEN w * lo * s[lo] + s[lo] + 1
  ELSE SumOver(s, w, lo, (lo + hi) \div 2)
         + SumOver(s, w, (lo + hi) \div 2 + 1, hi)

\* A 32-bit checksum of a byte string, standing for the IEEE CRC32; the
\* value is kept as its two 16-bit halves.
Sum32(s) ==
  [hi |-> SumOver(s, 1, 1, Len(s)) % 65536,
   lo |-> SumOver(s, 0, 1, Len(s)) % 65536]

\* (f *File) checksum(data)
checksumV1(f, data) == Sum32(f.init \o f.salt \o data)

\* binary.BigEndian.PutUint32 and binary.BigEndian.Uint32
PutUint32(v) == <<v.hi \div 256, v.hi % 256, v.lo \div 256, v.lo % 256>>

Uint32(b) == [hi |-> 256 * b[1] + b[2], lo |-> 256 * b[3] + b[4]]

\* Parse(data) of the KF\x01 package
ParseV1(b) ==
  IF ~HasPrefix(b, magicV1)
  THEN [ok |-> FALSE, file |-> NewV1, err |-> <<ErrBadPacket, "invalid magic">>]
  ELSE LET data == Slice(b, Len(magicV1), Len(b))
       IN  IF Len(data) < 2
           THEN [ok |-> FALSE, file |-> NewV1,
                 err |-> <<ErrBadPacket, "truncated packet">>]
           ELSE LET ilen == data[1]
                    slen == data[2]
                IN  IF 2 + ilen > Len(data)
                    THEN [ok |-> FALSE, file |-> NewV1,
                          err |-> <<ErrBadPacket, "invalid IV">>]
                    ELSE IF 2 + ilen + slen > Len(data)
                    THEN [ok |-> FALSE, file |-> NewV1,
                          err |-> <<ErrBadPacket, "invalid salt">>]
                    ELSE LET user == Slice(data, 2 + ilen + slen, Len(data))
                         IN  IF Len(user) < 4
                             THEN [ok |-> FALSE, file |-> NewV1,
                                   err |-> <<ErrBadPacket, "invalid CRC">>]
                             ELSE [ok |-> TRUE,
                                   file |-> FileV1(Slice(data, 2, 2 + ilen),
                                                   Slice(data, 2 + ilen, 2 + ilen + slen),
                                                   user),
                                   err |-> NoErr]

\* (f *File) Encode() of the KF\x01 package
EncodeV1(f) ==
  magicV1 \o <<ToByte(Len(f.init)), ToByte(Len(f.salt))>>
    \o f.init \o f.salt \o f.data

\* What a method of the KF\x01 File leaves behind: the File, the value and
\* the error returned, and the seeds read from the random source.
OutcomeV1(f, val, err, drew) == [f |-> f, val |-> val, err |-> err, drew |-> drew]

\* (f *File) keyCipher(passphrase) with keySalt and keyIV; rs and ri are what
\* rand.Read does for the salt and for the initialization vector.
keyCipherV1(f, passphrase, rs, ri) ==
  IF Len(f.salt) = 0 /\ ~rs.ok
  THEN [f |-> f, key |-> <<>>, err |-> <<"key salt", ErrRandRead>>, drew |-> <<>>]
  ELSE LET g == IF Len(f.salt) = 0
                THEN [f EXCEPT !.salt = RandBytes(rs.seed, keySaltBytes)] ELSE f
           d == IF Len(f.salt) = 0 THEN <<rs.seed>> ELSE <<>>
       IN  IF Len(g.init) = 0 /\ ~ri.ok
           THEN [f |-> [g EXCEPT !.init = Zeros(aesBlockSize)], key |-> <<>>,
                 err |-> <<"initialization vector", ErrRandRead>>, drew |-> d]
           ELSE LET h == IF Len(g.init) = 0
                         THEN [g EXCEPT !.init = RandBytes(ri.seed, aesBlockSize)]
                         ELSE g
                IN  [f |-> h,
                     key |-> [pass |-> passphrase, salt |-> h.salt, iv |-> h.init],
                     err |-> NoErr,
                     drew |-> d \o (IF Len(g.init) = 0 THEN <<ri.seed>> ELSE <<>>)]

\* (f *File) checkKey(data)
checkKeyV1(f, data) ==
  IF Uint32(data) # checksumV1(f, Slice(data, 4, Len(data)))
  THEN [val |-> <<>>, err |-> <<ErrBadPassphrase>>]
  ELSE [val |-> Slice(data, 4, Len(data)), err |-> NoErr]

\* (f *File) Get(passphrase) of the KF\x01 package; past the first test the
\* salt and the initialization vector exist, so keyCipher reads no random
\* bytes.
GetV1(f, passphrase) ==
  IF Len(f.init) = 0 \/ Len(f.salt) = 0 \/ Len(f.data) <= 4
  THEN OutcomeV1(f, <<>>, <<ErrNoKey>>, <<>>)
  ELSE LET none == [ok |-> FALSE, seed |-> 0]
           c == keyCipherV1(f, passphrase, none, none)
           r == checkKeyV1(f, XORKeyStream(c.key, 0, f.data))
       IN  IF r.err # NoErr
           THEN OutcomeV1(f, <<>>, Wrap("keyfile verify", r.err), <<>>)
           ELSE OutcomeV1(f, r.val, NoErr, <<>>)

\* (f *File) Set(passphrase, secret) of the KF\x01 package
SetV1(f, passphrase, secret, rs, ri) ==
  LET c == keyCipherV1(NewV1, passphrase, rs, ri)
  IN  IF c.err # NoErr
      THEN OutcomeV1(c.f, <<>>, Wrap("keyfile encrypt", c.err), c.drew)
      ELSE LET pkt == XORKeyStream(c.key, 0, PutUint32(checksumV1(c.f, secret)))
                        \o XORKeyStream(c.key, 4, secret)
           IN  OutcomeV1([c.f EXCEPT !.data = pkt], <<>>, NoErr, c.drew)

\* (f *File) Random(passphrase, nbytes) of the KF\x01 package
RandomV1(f, passphrase, nbytes, rx, rs, ri) ==
  IF nbytes <= 0
  THEN OutcomeV1(f, <<>>, <<ErrInvalidSize>>, <<>>)
  ELSE IF ~rx.ok
  THEN OutcomeV1(f, <<>>, <<ErrRandRead>>, <<>>)
  ELSE LET secret == RandBytes(rx.seed, nbytes)
           r == SetV1(f, passphrase, secret, rs, ri)
       IN  [r EXCEPT !.val = IF r.err = NoErr THEN secret ELSE <<>>,
                     !.drew = <<rx.seed>> \o r.drew]

\* Nothing stored through the KF\x01 File yet.
NoSecretV1 == [ok |-> FALSE, pass |-> <<>>, secret |-> <<>>]

\* The KF\x01 File a caller holds and the last call on it.
StartV1 ==
  [f |-> NewV1, op |-> "New", pass |-> <<>>, arg |-> <<>>, n |-> 0,
   val |-> <<>>, err |-> NoErr, draws |-> 0, stored |-> NoSecretV1]

\* ------------------------------ the multi-key File (keypb.Keyfile message)
ErrNoSuchKey == "no matching key"

saltBytesPb == 8

\* a < b for Go strings, as sequences of bytes
RECURSIVE StrLess(_, _)
StrLess(a, b) ==
  IF b = <<>> THEN FALSE
  ELSE IF a = <<>> THEN TRUE
  ELSE IF a[1] # b[1] THEN a[1] < b[1]
  ELSE StrLess(Tail(a), Tail(b))

\* A File of the multi-key package: the keys of its message, the key salt of
\* the message and the passphrase.
FilePb(keys, salt, passphrase) == [keys |-> keys, salt |-> salt, pass |-> passphrase]

\* New(passphrase)
NewPb(passphrase) == FilePb(<<>>, <<>>, passphrase)

\* keypb.Keyfile_Key
KeyPb(slug, init, data) == [slug |-> slug, init |-> init, data |-> data]

\* A sorted sequence with one more key in its place.
RECURSIVE InsertKey(_, _)
InsertKey(keys, key) ==
  IF keys = <<>> THEN <<key>>
  ELSE IF StrLess(key.slug, keys[1].slug) THEN <<key>> \o keys
  ELSE <<keys[1]>> \o InsertKey(Tail(keys), key)

\* fix that leaves the keys as they are.
fixKeepsOrder(keys) == keys

\* fix(pb): the keys sorted by slug (sort.Slice with the order of strings).
RECURSIVE fix(_)
fix(keys) ==
  IF keys = <<>> THEN <<>>
  ELSE InsertKey(fix(SubSeq(keys, 1, Len(keys) - 1)), keys[Len(keys)])

\* (f *File) Slugs()
Slugs(f) == [i \in 1..Len(f.keys) |-> f.keys[i].slug]

\* (f *File) findKey(slug): the position of the first key with the slug, or
\* 0 for nil.
findKey(f, slug) ==
  IF \E i \in 1..Len(f.keys) : f.keys[i].slug = slug
  THEN CHOOSE i \in 1..Len(f.keys) :
         /\ f.keys[i].slug = slug
         /\ \A j \in 1..(i - 1) : f.keys[j].slug # slug
  ELSE 0

\* (f *File) Has(slug)
Has(f, slug) == findKey(f, slug) # 0

\* checksum(data): the length and the exclusive or of the bytes
RECURSIVE XorBytes(_)
XorBytes(data) ==
  IF data = <<>> THEN 0 ELSE BitXor(data[1], XorBytes(Tail(data)), 8)

checksum(data) == 256 * Len(data) + XorBytes(data)

\* proto.Marshal and proto.Unmarshal of a keypb.Keyfile_Secret: a message
\* whose fields are all zero is the empty string; otherwise the secret with
\* its length in front and the check after it.
MarshalSecret(secret, check) ==
  IF secret = <<>> /\ check = 0 THEN <<>>
  ELSE <<Len(secret)>> \o secret \o <<check \div 256, check % 256>>

UnmarshalSecret(b) ==
  IF b = <<>> THEN [ok |-> TRUE, secret |-> <<>>, check |-> 0]
  ELSE IF Len(b) < 3 \/ b[1] + 3 # Len(b)
  THEN [ok |-> FALSE, secret |-> <<>>, check |-> 0]
  ELSE [ok |-> TRUE, secret |-> SubSeq(b, 2, Len(b) - 2),
        check |-> 256 * b[Len(b) - 1] + b[Len(b)]]

\* What a method of the multi-key File leaves behind: the File, the value
\* and the error returned, and the seeds read from the random source.
OutcomePb(f, val, err, drew) == [f |-> f, val |-> val, err |-> err, drew |-> drew]

\* (f *File) fileCipher(n, iv) with fileKey and keySalt; rs is what rand.Read
\* does for the salt if there is none yet.
fileCipher(f, iv, rs) ==
  IF Len(f.salt) = 0 /\ ~rs.ok
  THEN [f |-> f, key |-> <<>>, err |-> <<"key salt", ErrRandRead>>, drew |-> <<>>]
  ELSE LET g == IF Len(f.salt) = 0
                THEN [f EXCEPT !.salt = RandBytes(rs.seed, saltBytesPb)] ELSE f
       IN  [f |-> g, key |-> [pass |-> g.pass, salt |-> g.salt, iv |-> iv],
            err |-> NoErr,
            drew |-> IF Len(f.salt) = 0 THEN <<rs.seed>> ELSE <<>>]

\* (f *File) Get(slug) of the multi-key package
GetPb(f, slug, rs) ==
  LET i == findKey(f, slug)
  IN  IF i = 0
      THEN OutcomePb(f, <<>>, <<"get", ErrNoSuchKey>>, <<>>)
      ELSE LET c == fileCipher(f, f.keys[i].init, rs)
           IN  IF c.err # NoErr
               THEN OutcomePb(c.f, <<>>, Wrap("get decrypt", c.err), c.drew)
               ELSE LET sec == UnmarshalSecret(XORKeyStream(c.key, 0, f.keys[i].data))
                    IN  IF ~sec.ok \/ sec.check # checksum(sec.secret)
                        THEN OutcomePb(c.f, <<>>, <<"get", ErrBadPassphrase>>, c.drew)
                        ELSE OutcomePb(c.f, sec.secret, NoErr, c.drew)

\* (f *File) Set(slug, secret) of the multi-key package; ri and rs are what
\* rand.Read does for the initialization vector and for the salt.
SetPb(f, slug, secret, ri, rs) ==
  LET g == IF findKey(f, slug) = 0
           THEN [f EXCEPT !.keys = fix(Append(f.keys, KeyPb(slug, <<>>, <<>>)))]
           ELSE f
      i == findKey(g, slug)
  IN  IF ~ri.ok
      THEN OutcomePb([g EXCEPT !.keys[i].init = Zeros(aesBlockSize)], <<>>,
                     <<"set", ErrRandRead>>, <<>>)
      ELSE LET iv == RandBytes(ri.seed, aesBlockSize)
               h == [g EXCEPT !.keys[i].init = iv]
               c == fileCipher(h, iv, rs)
           IN  IF c.err # NoErr
               THEN OutcomePb(c.f, <<>>, Wrap("set encrypt", c.err), <<ri.seed>>)
               ELSE LET bits == XORKeyStream(c.key, 0,
                                  MarshalSecret(secret, checksum(secret)))
                    IN  OutcomePb([c.f EXCEPT !.keys[i].data = bits], <<>>, NoErr,
                                  <<ri.seed>> \o c.drew)

\* (f *File) Remove(slug)
Remove(f, slug) ==
  LET i == findKey(f, slug)
  IN  IF i # 0
      THEN [f |-> [f EXCEPT !.keys = SubSeq(f.keys, 1, i - 1)
                                       \o SubSeq(f.keys, i + 1, Len(f.keys))],
            ok |-> TRUE]
      ELSE [f |-> f, ok |-> FALSE]

\* The slugs in use, in ascending order.
SlugSeq == <<<<98, 97>>, <<101>>, <<101, 109>>>>

SlugSet == {SlugSeq[i] : i \in 1..Len(SlugSeq)}

\* No secret under any slug.
NoSecretsPb == [s \in SlugSet |-> [ok |-> FALSE, secret |-> <<>>]]

\* The multi-key File a caller holds and the last call on it.
StartPb ==
  [f |-> NewPb(<<112>>), op |-> "New", slug |-> <<>>, arg |-> <<>>,
   val |-> <<>>, ok |-> FALSE, err |-> NoErr,
   stored |-> NoSecretsPb]

\* ------------------------------------------------------------------ inputs
Passphrase(i) == [j \in 1..i |-> 112]
Passphrases == {Passphrase(0), Passphrase(MaxPass)}

Secret(k) == [i \in 1..k |-> 200 + i]
Secrets == {Secret(0), Secret(MaxSecret)}

PacketBody(k) == [i \in 1..k |-> 96 + i]

\* The packet b with the byte at position i changed.
TamperAt(b, i) == [b EXCEPT ![i] = ToByte(b[i] + 1)]

\* The first and the last byte of the salt, nonce and ciphertext regions of
\* a packet (an empty region has none).
TamperPositions(b) ==
  LET slen == b[Len(magic) + 1]
      nlen == b[Len(magic) + 2]
      h == Len(magic) + 2
  IN  {i \in {h + 1, h + slen, h + slen + 1, h + slen + nlen,
              h + slen + nlen + 1, Len(b)} :
         /\ i > h
         /\ i <= Len(b)
         /\ (i <= h + slen) => slen > 0
         /\ (i > h + slen /\ i <= h + slen + nlen) => nlen > 0}

Tampered(b) == {TamperAt(b, i) : i \in TamperPositions(b)}

\* Packets with the magic tag, every declared slen and nlen and every body
\* length, the prefixes of a packet cut inside the magic or the length bytes,
\* and packets of other format versions.
Packets ==
  {magic \o <<s, n>> \o PacketBody(k) :
      s \in 0..MaxLenByte, n \in 0..MaxLenByte, k \in 0..MaxBody}
  \cup {SubSeq(magic \o <<1, 1>>, 1, j) : j \in 0..4}
  \cup {<<88>>, <<75, 70, 0>>, <<75, 70, 1, 0, 0>>}

\* ------------------------------------------------------------------- state
VARIABLES
  f,        \* the container the caller holds
  res,      \* the last call: operation, arguments and what it returned
  story,    \* what the caller did to get f: the passphrase and secret of the
            \* Set or Random that filled it, and whether f has since been
            \* through Encode and Parse
  sealLog,  \* every use of aead.Seal so far, in order
  rnd,      \* successful reads of the random source so far
  fresh,    \* the installed source: TRUE never repeats a value (each read
            \* delivers the next seed), FALSE delivers the same bytes each time
  lk,       \* the call of LoadKey in progress or last finished
  gp,       \* the last passphrase prompt of the command-line tool
  offer,    \* the call of offerKey in progress or last finished, with the
            \* path it was given, its context and its goroutine
  cli,      \* the last run of a set, rekey or random command: its inputs,
            \* the key file before and after, and how it ended
  k1,       \* the KF\x01 File a caller holds, the last call on it and
            \* what the last successful Set or Random stored
  mk        \* the multi-key File a caller holds, the last call on it and
            \* the secret last stored under each slug

vars == <<f, res, story, sealLog, rnd, fresh, lk, gp, offer, cli, k1, mk>>

\* The state of the File methods' caller.
fileVars == <<f, res, story, sealLog, rnd, fresh>>

\* had: whether the container had a salt when the call began.
Call(op, pass, arg, n, o) ==
  [op |-> op, pass |-> pass, arg |-> arg, n |-> n, had |-> Len(f.salt) > 0,
   val |-> o.val, err |-> o.err, panic |-> o.panic, kdf |-> o.kdf, drew |-> o.drew]

Quiet(g) == Outcome(g, <<>>, NoErr, FALSE, FALSE, <<>>, <<>>)

Range(s) == {s[i] : i \in 1..Len(s)}

NoStory == [stage |-> "none", pass |-> <<>>, secret |-> <<>>]

\* The caller's story after the call c that turned the container into g.
StoryAfter(c, g) ==
  CASE c.op = "New" -> NoStory
    [] c.op \in {"Set", "Random"} ->
         IF c.err = NoErr /\ ~c.panic
         THEN [stage |-> "set", pass |-> c.pass,
               secret |-> IF c.op = "Set" THEN c.arg ELSE c.val]
         ELSE IF g = f THEN story ELSE NoStory
    [] c.op = "Parse" ->
         IF res.op = "Encode" /\ story.stage = "set" /\ c.arg \in Tampered(res.val)
         THEN IF c.err = NoErr /\ ~c.panic
              THEN [story EXCEPT !.stage = "tampered"]
              ELSE story
         ELSE
         IF res.op = "Encode" /\ c.arg = res.val /\ story.stage \in {"set", "parsed"}
         THEN [story EXCEPT !.stage = IF c.err = NoErr /\ ~c.panic THEN "parsed"
                                      ELSE "parsefail"]
         ELSE IF c.err = NoErr /\ ~c.panic THEN NoStory ELSE story
    [] OTHER -> story

Failed == [ok |-> FALSE, seed |-> 0]

\* What the k-th read of a call (k = 0, 1, 2) does if the call gets to it:
\* it fails, or it delivers the source's bytes.
Reads(k) == {Failed, [ok |-> TRUE, seed |-> IF fresh THEN rnd + k ELSE 0]}

\* No call of LoadKey yet.
NoLoad ==
  [pc |-> "idle", file |-> [exists |-> FALSE, data |-> <<>>, seals |-> {}],
   pf |-> [pass |-> <<>>, err |-> NoErr], data |-> <<>>, kf |-> New,
   passphrase |-> <<>>, stages |-> <<>>, pfCalls |-> 0,
   val |-> <<>>, err |-> NoErr, panic |-> FALSE]

\* No passphrase prompt yet.
NoPrompt ==
  [fn |-> "none", emptyOK |-> FALSE, tag |-> "", confirm |-> FALSE,
   typed |-> <<>>, pp |-> <<>>, err |-> NoErr, fatal |-> FALSE, asked |-> <<>>]

\* No call of offerKey yet. path is what is at pipeFile ("absent", "pipe"
\* or "file" for anything that is not a named pipe), path0 what was there
\* when offerKey was entered; early records that the context ended before
\* offerKey had the pipe open.
NoOffer ==
  [pc |-> "idle", path0 |-> "absent", path |-> "absent", created |-> FALSE,
   deferred |-> FALSE, removed |-> FALSE, ctxDone |-> FALSE, reader |-> FALSE,
   helper |-> "none", ready |-> FALSE, fd |-> FALSE, opened |-> {},
   written |-> FALSE, err |-> NoErr, early |-> FALSE]

\* No command has run.
NoRun ==
  [tool |-> "none", cmd |-> "none", emptyOK |-> FALSE,
   disk0 |-> [exists |-> FALSE, data |-> <<>>, seals |-> {}],
   disk |-> [exists |-> FALSE, data |-> <<>>, seals |-> {}],
   typedOld |-> <<>>, typedNew |-> <<>>, saved |-> FALSE, err |-> NoErr,
   fatal |-> FALSE, panic |-> FALSE, loaded |-> FALSE, old |-> <<>>,
   keyed |-> FALSE, asked |-> 0, pp |-> <<>>, secret |-> <<>>]

Init ==
  /\ mk = StartPb
  /\ k1 = StartV1
  /\ cli = NoRun
  /\ offer = NoOffer
  /\ lk = NoLoad
  /\ gp = NoPrompt
  /\ f = New
  /\ res = Call("New", <<>>, <<>>, 0, Quiet(New))
  /\ story = NoStory
  /\ sealLog = <<>>
  /\ rnd = 0
  /\ fresh \in BOOLEAN

\* The effect of a method call with outcome o.
Apply(call, o) ==
  /\ f' = o.f
  /\ res' = call
  /\ story' = StoryAfter(call, o.f)
  /\ sealLog' = sealLog \o o.seals
  /\ rnd' = IF fresh /\ o.drew # <<>> THEN o.drew[Len(o.drew)] + 1
             ELSE rnd + Len(o.drew)
  /\ UNCHANGED <<fresh, lk, gp, offer, cli, k1, mk>>

NewOp ==
  Apply(Call("New", <<>>, <<>>, 0, Quiet(New)), Quiet(New))

\* Parse of one of the given packets, of the bytes Encode just returned, or
\* of those bytes with one byte changed if they hold what Set stored.
\* The caller holds the parsed File, or keeps the old one if Parse fails.
ParseOp(inputs) ==
  \E b \in inputs \cup (IF res.op = "Encode" THEN {res.val} ELSE {})
             \cup (IF res.op = "Encode" /\ story.stage = "set"
                   THEN Tampered(res.val) ELSE {}) :
    LET r == Parse(b)
        o == [Quiet(IF r.kind = "ok" THEN r.file ELSE f)
                EXCEPT !.err = r.err, !.panic = (r.kind = "panic")]
    IN  Apply(Call("Parse", <<>>, b, 0, o), o)

EncodeOp ==
  LET o == [Quiet(f) EXCEPT !.val = Encode(f)]
  IN  Apply(Call("Encode", <<>>, <<>>, 0, o), o)

GetOp ==
  \E p \in Passphrases, rd \in Reads(0) :
    LET o == Get(f, p, rd, Range(sealLog))
    IN  Apply(Call("Get", p, <<>>, 0, o), o)

SetOp ==
  /\ rnd + 2 <= MaxDraws
  /\ \E p \in Passphrases, s \in Secrets, rs \in Reads(0), rn \in Reads(1) :
       LET o == Set(f, p, s, rs, rn)
       IN  Apply(Call("Set", p, s, 0, o), o)

RandomOp ==
  /\ rnd + 3 <= MaxDraws
  /\ \E p \in Passphrases, n \in {-1, 0, MaxRandom}, rx \in Reads(0),
        rs \in Reads(1), rn \in Reads(2) :
       LET o == Random(f, p, n, rx, rs, rn)
       IN  Apply(Call("Random", p, <<>>, n, o), o)

\* The container's life: packets with an empty and a non-empty salt and
\* nonce, one packet with a full-size nonce that no Seal produced, and a
\* malformed one.
SamplePackets ==
  {magic \o <<s, n>> \o PacketBody(2 * MaxLenByte) :
      s \in {0, MaxLenByte}, n \in {0, MaxLenByte}}
  \cup {magic \o <<1, gcmNonceSize>> \o PacketBody(1 + gcmNonceSize + gcmTagSize),
        <<75, 70, 1, 0, 0>>}

Next ==
  \/ NewOp
  \/ ParseOp(SamplePackets)
  \/ EncodeOp
  \/ GetOp
  \/ SetOp
  \/ RandomOp

Spec == Init /\ [][Next]_vars

\* The codec alone: Parse on every enumerated packet, Encode of what it gave.
NextCodec ==
  \/ ParseOp(Packets)
  \/ EncodeOp
  \/ NewOp

SpecCodec == Init /\ [][NextCodec]_vars

\* ----------------------------------------------------------------- LoadKey
ErrNotExist == "file does not exist"
ErrProvider == "passphrase provider failed"

\* A key file as SetOp and EncodeOp write it, with the seals its writer made.
KeyFileOf(p, s) ==
  LET o == Set(New, p, s, [ok |-> TRUE, seed |-> 0], [ok |-> TRUE, seed |-> 1])
  IN  [exists |-> TRUE, data |-> Encode(o.f), seals |-> Range(o.seals)]

\* What can be at the path: nothing, a key file, the encoding of an empty
\* container, or other bytes.
LoadFiles ==
  {[exists |-> FALSE, data |-> <<>>, seals |-> {}]}
  \cup {KeyFileOf(p, s) : p \in Passphrases, s \in Secrets}
  \cup {[exists |-> TRUE, data |-> b, seals |-> {}] :
          b \in SamplePackets \cup {Encode(New), magic \o <<2, 1>> \o PacketBody(2)}}

\* What the provider pf does when called: it fails or returns a passphrase.
Providers ==
  {[pass |-> <<>>, err |-> <<ErrProvider>>]}
  \cup {[pass |-> p, err |-> NoErr] : p \in Passphrases}

\* LoadKey(path, pf) is called.
LoadKeyCall ==
  /\ lk.pc \in {"idle", "done"}
  /\ \E file \in LoadFiles, pf \in Providers :
       lk' = [NoLoad EXCEPT !.pc = "read", !.file = file, !.pf = pf]
  /\ UNCHANGED <<fileVars, gp, offer, cli, k1, mk>>

\* data, err := ioutil.ReadFile(path)
LoadKeyReadFile ==
  /\ lk.pc = "read"
  /\ LET l == [lk EXCEPT !.stages = Append(lk.stages, "read")]
     IN  lk' = IF ~lk.file.exists
               THEN [l EXCEPT !.pc = "done", !.err = Wrap("open", <<ErrNotExist>>)]
               ELSE [l EXCEPT !.pc = "parse", !.data = lk.file.data]
  /\ UNCHANGED <<fileVars, gp, offer, cli, k1, mk>>

\* LoadKey that asks for the passphrase although Parse failed.
LoadKeyParseThenAsk ==
  /\ lk.pc = "parse"
  /\ LET r == Parse(lk.data)
         l == [lk EXCEPT !.stages = Append(lk.stages, "parse")]
     IN  lk' = IF r.kind = "panic"
               THEN [l EXCEPT !.pc = "done", !.panic = TRUE]
               ELSE [l EXCEPT !.pc = "pf", !.kf = r.file]
  /\ UNCHANGED <<fileVars, gp, offer, cli, k1, mk>>

\* kf, err := Parse(data)
LoadKeyParse ==
  /\ lk.pc = "parse"
  /\ LET r == Parse(lk.data)
         l == [lk EXCEPT !.stages = Append(lk.stages, "parse")]
     IN  lk' = IF r.kind = "panic"
               THEN [l EXCEPT !.pc = "done", !.panic = TRUE]
               ELSE IF r.kind = "err"
               THEN [l EXCEPT !.pc = "done", !.err = r.err]
               ELSE [l EXCEPT !.pc = "pf", !.kf = r.file]
  /\ UNCHANGED <<fileVars, gp, offer, cli, k1, mk>>

\* passphrase, err := pf()
LoadKeyPf ==
  /\ lk.pc = "pf"
  /\ LET l == [lk EXCEPT !.stages = Append(lk.stages, "pf"),
                         !.pfCalls = lk.pfCalls + 1]
     IN  lk' = IF lk.pf.err # NoErr
               THEN [l EXCEPT !.pc = "done", !.err = lk.pf.err]
               ELSE [l EXCEPT !.pc = "get", !.passphrase = lk.pf.pass]
  /\ UNCHANGED <<fileVars, gp, offer, cli, k1, mk>>

\* return kf.Get(passphrase)
LoadKeyGet ==
  /\ lk.pc = "get"
  /\ \E rd \in {Failed, [ok |-> TRUE, seed |-> 0]} :
       LET o == Get(lk.kf, lk.passphrase, rd, lk.file.seals)
       IN  lk' = [lk EXCEPT !.pc = "done", !.stages = Append(lk.stages, "get"),
                            !.kf = o.f, !.val = o.val, !.err = o.err,
                            !.panic = o.panic]
  /\ UNCHANGED <<fileVars, gp, offer, cli, k1, mk>>

NextLoad ==
  \/ LoadKeyCall
  \/ LoadKeyReadFile
  \/ LoadKeyParse
  \/ LoadKeyPf
  \/ LoadKeyGet

SpecLoad == Init /\ [][NextLoad]_vars

\* ------------------------------------------------- command-line passphrase
ErrPrompt == "getpass: read failed"
ErrEmptyPassphrase == "empty passphrase"
ErrMismatch == "passphrases do not match"

\* What getpass.Prompt returns: an error, or the line the user typed.
Typed == {[pp |-> <<>>, err |-> <<ErrPrompt>>]}
         \cup {[pp |-> p, err |-> NoErr] : p \in Passphrases}

\* The commands' prompts: get and set use "", rekey uses "Old " and "New ".
Tags == {"", "Old ", "New "}

PromptResult(pp, err, fatal, asked) ==
  [pp |-> pp, err |-> err, fatal |-> fatal, asked |-> asked]

\* getPassphrase(tag, confirm) of the command-based tool; typed is what the
\* first and the second prompt return if they are shown.
getPassphrase(emptyOK, tag, confirm, typed) ==
  IF typed[1].err # NoErr
  THEN PromptResult(<<>>, Wrap("read passphrase", typed[1].err), FALSE,
                    <<tag>>)
  ELSE IF typed[1].pp = <<>> /\ emptyOK
  THEN PromptResult(<<>>, <<ErrEmptyPassphrase>>, FALSE, <<tag>>)
  ELSE IF ~confirm
  THEN PromptResult(typed[1].pp, NoErr, FALSE, <<tag>>)
  ELSE IF typed[2].err # NoErr
  THEN PromptResult(<<>>, Wrap("read confirmation", typed[2].err), FALSE,
                    <<tag, tag>>)
  ELSE IF typed[2].pp # typed[1].pp
  THEN PromptResult(<<>>, <<ErrMismatch>>, FALSE, <<tag, tag>>)
  ELSE PromptResult(typed[1].pp, NoErr, FALSE, <<tag, tag>>)

\* mustPassphrase(tag) of the flag-based tool: log.Fatal ends the program.
mustPassphrase(emptyOK, tag, typed) ==
  IF typed[1].err # NoErr
  THEN PromptResult(<<>>, Wrap("Reading passsphrase", typed[1].err), TRUE,
                    <<tag>>)
  ELSE IF typed[1].pp = <<>> /\ ~emptyOK
  THEN PromptResult(<<>>, <<"Empty passphrase">>, TRUE, <<tag>>)
  ELSE PromptResult(typed[1].pp, NoErr, FALSE, <<tag>>)

Prompted(fn, emptyOK, tag, confirm, typed, r) ==
  [fn |-> fn, emptyOK |-> emptyOK, tag |-> tag, confirm |-> confirm,
   typed |-> typed, pp |-> r.pp, err |-> r.err, fatal |-> r.fatal,
   asked |-> r.asked]

GetPassphraseOp ==
  /\ \E emptyOK \in BOOLEAN, tag \in Tags, confirm \in BOOLEAN,
        t1 \in Typed, t2 \in Typed :
       gp' = Prompted("getPassphrase", emptyOK, tag, confirm, <<t1, t2>>,
                      getPassphrase(emptyOK, tag, confirm, <<t1, t2>>))
  /\ UNCHANGED <<fileVars, lk, offer, cli, k1, mk>>

MustPassphraseOp ==
  /\ \E emptyOK \in BOOLEAN, tag \in Tags, t1 \in Typed :
       gp' = Prompted("mustPassphrase", emptyOK, tag, FALSE, <<t1>>,
                      mustPassphrase(emptyOK, tag, <<t1>>))
  /\ UNCHANGED <<fileVars, lk, offer, cli, k1, mk>>

NextPass ==
  \/ GetPassphraseOp
  \/ MustPassphraseOp

SpecPass == Init /\ [][NextPass]_vars

\* ------------------------------------------------ set, rekey and random
ErrSave == "atomicfile: write failed"

\* The whole of LoadKey(path, pf) as one function: file is what is at the
\* path, pf what the provider returns (or that it ends the program) if it is
\* called.
LoadKey(file, pf) ==
  LET none == [val |-> <<>>, err |-> NoErr, panic |-> FALSE, fatal |-> FALSE]
  IN  IF ~file.exists THEN [none EXCEPT !.err = Wrap("open", <<ErrNotExist>>)]
      ELSE LET r == Parse(file.data) IN
        IF r.kind = "panic" THEN [none EXCEPT !.panic = TRUE]
        ELSE IF r.kind = "err" THEN [none EXCEPT !.err = r.err]
        ELSE IF pf.fatal THEN [none EXCEPT !.err = pf.err, !.fatal = TRUE]
        ELSE IF pf.err # NoErr THEN [none EXCEPT !.err = pf.err]
        ELSE LET o == Get(r.file, pf.pp, Failed, file.seals)
             IN  [none EXCEPT !.val = o.val, !.err = o.err, !.panic = o.panic]

\* loadKeyFile(tag, path) of the command-based tool.
loadKeyFile(emptyOK, tag, file, typed) ==
  LET r == LoadKey(file, getPassphrase(emptyOK, tag, FALSE, typed))
  IN  IF r.err # NoErr THEN [r EXCEPT !.err = Wrap("load key file", r.err)] ELSE r

\* mustReadKeyfile(tag, path) of the flag-based tool.
mustReadKeyfile(emptyOK, tag, file, typed) ==
  LET r == LoadKey(file, mustPassphrase(emptyOK, tag, typed))
  IN  IF r.err # NoErr
      THEN [r EXCEPT !.err = Wrap("Loading keyfile", r.err), !.fatal = TRUE]
      ELSE r

\* What a command has in hand after the passphrase and Set or Random: the
\* container, the seals made, the passphrase used, how often it asked.
Keyed(kf, seals, pp, asked, err, fatal) ==
  [kf |-> kf, seals |-> seals, pp |-> pp, asked |-> asked, err |-> err,
   fatal |-> fatal]

\* setKey(tag, key) of the command-based tool.
setKey(emptyOK, tag, key, typed, rs, rn) ==
  LET p == getPassphrase(emptyOK, tag, TRUE, typed) IN
    IF p.err # NoErr
    THEN Keyed(New, <<>>, <<>>, Len(p.asked), p.err, FALSE)
    ELSE LET o == Set(New, p.pp, key, rs, rn)
         IN  Keyed(o.f, o.seals, p.pp, Len(p.asked), o.err, FALSE)

\* mustSetKey(tag, key) of the flag-based tool.
mustSetKey(emptyOK, tag, key, typed, rs, rn) ==
  LET p == mustPassphrase(emptyOK, tag, typed) IN
    IF p.fatal
    THEN Keyed(New, <<>>, <<>>, Len(p.asked), p.err, TRUE)
    ELSE LET o == Set(New, p.pp, key, rs, rn)
         IN  Keyed(o.f, o.seals, p.pp, Len(p.asked),
                   IF o.err # NoErr THEN Wrap("Encoding keyfile", o.err) ELSE NoErr,
                   o.err # NoErr)

\* saveKeyFile(path, kf) and mustWriteKeyFile(path, kf): the atomicfile
\* package replaces the file with the encoding of kf, or fails and leaves
\* the path as it was.
saveKeyFile(disk, kf, seals, wok) ==
  IF wok
  THEN [disk |-> [exists |-> TRUE, data |-> Encode(kf), seals |-> Range(seals)],
        saved |-> TRUE, err |-> NoErr]
  ELSE [disk |-> disk, saved |-> FALSE, err |-> <<ErrSave>>]

\* The end of a command that saves the file whether or not Set succeeded.
FinishSavesAnyway(run, k, secret, wok) ==
  LET r == [run EXCEPT !.asked = k.asked]
      w == saveKeyFile(run.disk, k.kf, k.seals, wok)
  IN  [r EXCEPT !.keyed = (k.err = NoErr), !.pp = k.pp, !.secret = secret,
                !.disk = w.disk, !.saved = w.saved,
                !.err = IF k.err # NoErr THEN k.err ELSE w.err,
                !.fatal = k.fatal]

\* The end of a command that has the old secret (rekey), Set or Random done
\* (k) and the secret to store: it saves the file if all went well.
Finish(run, k, secret, wok) ==
  LET r == [run EXCEPT !.asked = k.asked]
  IN  IF k.err # NoErr \/ k.fatal
      THEN [r EXCEPT !.err = k.err, !.fatal = k.fatal]
      ELSE LET w == saveKeyFile(run.disk, k.kf, k.seals, wok)
           IN  [r EXCEPT !.keyed = TRUE, !.pp = k.pp, !.secret = secret,
                         !.disk = w.disk, !.saved = w.saved, !.err = w.err,
                         !.fatal = (w.err # NoErr /\ run.tool = "flag")]

\* The one element of a singleton set. The commands below compute each
\* intermediate result once by drawing it from such a set.
The(S) == CHOOSE x \in S : TRUE

\* The set command: decodeKey already gave key.
RunSet(run, key, rs, rn, wok) ==
  The({Finish(run, k, key, wok) :
         k \in {IF run.tool = "cmd"
                THEN setKey(run.emptyOK, "", key, run.typedNew, rs, rn)
                ELSE mustSetKey(run.emptyOK, "", key, run.typedNew, rs, rn)}})

\* The rekey command.
RunRekey(run, rs, rn, wok) ==
  The({IF l.err # NoErr \/ l.panic \/ l.fatal
       THEN [run EXCEPT !.err = l.err, !.panic = l.panic, !.fatal = l.fatal]
       ELSE The({Finish([run EXCEPT !.loaded = TRUE, !.old = l.val], k, l.val, wok) :
                   k \in {IF run.tool = "cmd"
                          THEN setKey(run.emptyOK, "New ", l.val, run.typedNew, rs, rn)
                          ELSE mustSetKey(run.emptyOK, "New ", l.val, run.typedNew,
                                          rs, rn)}}) :
         l \in {IF run.tool = "cmd"
                THEN loadKeyFile(run.emptyOK, "Old ", run.disk, run.typedOld)
                ELSE mustReadKeyfile(run.emptyOK, "Old ", run.disk, run.typedOld)}})

\* The random command with size n.
RunRandom(run, n, rx, rs, rn, wok) ==
  IF n <= 0
  THEN [run EXCEPT !.err = <<"n must be positive">>, !.fatal = (run.tool = "flag")]
  ELSE The({IF p.err # NoErr
            THEN [run EXCEPT !.err = p.err, !.fatal = p.fatal, !.asked = Len(p.asked)]
            ELSE The({Finish(run,
                             Keyed(o.f, o.seals, p.pp, Len(p.asked),
                                   IF o.err # NoErr
                                   THEN Wrap("generate random key", o.err) ELSE NoErr,
                                   o.err # NoErr /\ run.tool = "flag"),
                             o.val, wok) :
                        o \in {Random(New, p.pp, n, rx, rs, rn)}}) :
              p \in {IF run.tool = "cmd"
                     THEN getPassphrase(run.emptyOK, "", TRUE, run.typedNew)
                     ELSE mustPassphrase(run.emptyOK, "", run.typedNew)}})

\* The key file before a command runs: none, one written by an earlier set,
\* or bytes that Parse rejects or panics on.
CliFiles ==
  {[exists |-> FALSE, data |-> <<>>, seals |-> {}]}
  \cup {KeyFileOf(p, Secret(MaxSecret)) : p \in Passphrases}
  \cup {[exists |-> TRUE, data |-> b, seals |-> {}] :
          b \in {<<75, 70, 1, 0, 0>>, magic \o <<2, 1>> \o PacketBody(2)}}

\* The reads of the random source in one command: all succeed, or the
\* first, second or third fails.
CliReads ==
  LET ok(k) == [ok |-> TRUE, seed |-> 2 + k]
  IN  {<<ok(0), ok(1), ok(2)>>, <<Failed, ok(1), ok(2)>>,
       <<ok(0), Failed, ok(2)>>, <<ok(0), ok(1), Failed>>}

\* One run of set, rekey or random of either tool (a run is one process).
CliRun ==
  /\ cli.tool = "none"
  /\ \E tool \in {"cmd", "flag"}, cmd \in {"set", "rekey", "random"},
        emptyOK \in BOOLEAN, disk \in CliFiles, t0 \in Typed, t1 \in Typed,
        t2 \in Typed, rd \in CliReads, wok \in BOOLEAN :
       \E run \in {[NoRun EXCEPT !.tool = tool, !.cmd = cmd, !.emptyOK = emptyOK,
                     !.disk0 = disk, !.disk = disk,
                     !.typedOld = IF cmd = "rekey" THEN <<t0>> ELSE <<>>,
                     !.typedNew = IF tool = "cmd" THEN <<t1, t2>> ELSE <<t1>>]} :
           cli' = CASE cmd = "set" ->
                         RunSet(run, Secret(MaxSecret), rd[1], rd[2], wok)
                    [] cmd = "rekey" -> RunRekey(run, rd[1], rd[2], wok)
                    [] cmd = "random" ->
                         RunRandom(run, MaxRandom, rd[1], rd[2], rd[3], wok)
  /\ UNCHANGED <<fileVars, lk, gp, offer, k1, mk>>

NextCli == CliRun

SpecCli == Init /\ [][NextCli]_vars

\* ---------------------------------------------------------------- offerKey
ErrNotPipe == "exists and is not a pipe"
ErrMkfifo == "mkfifo failed"
ErrOpenPipe == "open failed"
ErrCanceled == "context canceled"
ErrWrite == "write failed"

OfferRest == <<fileVars, lk, gp, cli, k1, mk>>

\* offerKey(env, pipeFile, key) is called; the context may have ended before.
OfferKeyCall ==
  /\ offer.pc = "idle"
  /\ \E kind \in {"absent", "pipe", "file"}, done \in BOOLEAN :
       offer' = [NoOffer EXCEPT !.pc = "stat", !.path0 = kind, !.path = kind,
                                !.ctxDone = done, !.early = done]
  /\ UNCHANGED OfferRest

\* The context ends: a signal at any moment, or the command's deferred
\* cancel() once offerKey has returned.
OfferCancel ==
  /\ offer.pc # "idle"
  /\ ~offer.ctxDone
  /\ offer' = [offer EXCEPT !.ctxDone = TRUE,
                            !.early = offer.pc \in {"stat", "mkfifo", "spawn", "open"}]
  /\ UNCHANGED OfferRest

\* Another process opens the pipe for reading and waits for a writer.
OfferReaderOpens ==
  /\ offer.pc \notin {"idle", "done"}
  /\ offer.path = "pipe"
  /\ ~offer.reader
  /\ offer' = [offer EXCEPT !.reader = TRUE]
  /\ UNCHANGED OfferRest

\* offerKey that registers the removal before it looks at the path.
OfferStatDefersAlways ==
  /\ offer.pc = "stat"
  /\ \E ok \in {b \in BOOLEAN : b => offer.path # "absent"} :
       offer' = IF ~ok THEN [offer EXCEPT !.pc = "mkfifo", !.deferred = TRUE]
                ELSE IF offer.path # "pipe"
                THEN [offer EXCEPT !.pc = "return", !.err = <<ErrNotPipe>>,
                                   !.deferred = TRUE]
                ELSE [offer EXCEPT !.pc = "spawn", !.deferred = TRUE]
  /\ UNCHANGED OfferRest

\* fi, err := os.Stat(pipeFile) and the test of the file type; Stat fails if
\* nothing is at the path, and may fail on a path that exists.
OfferStat ==
  /\ offer.pc = "stat"
  /\ \E ok \in {b \in BOOLEAN : b => offer.path # "absent"} :
       offer' = IF ~ok THEN [offer EXCEPT !.pc = "mkfifo"]
                ELSE IF offer.path # "pipe"
                THEN [offer EXCEPT !.pc = "return", !.err = <<ErrNotPipe>>]
                ELSE [offer EXCEPT !.pc = "spawn"]
  /\ UNCHANGED OfferRest

\* unix.Mkfifo(pipeFile, 0600) and, if it succeeds, defer os.Remove(pipeFile);
\* Mkfifo fails if something is at the path, and may fail otherwise.
OfferMkfifo ==
  /\ offer.pc = "mkfifo"
  /\ \E ok \in {b \in BOOLEAN : b => offer.path = "absent"} :
       offer' = IF ~ok
                THEN [offer EXCEPT !.pc = "return",
                                   !.err = Wrap("create pipe", <<ErrMkfifo>>)]
                ELSE [offer EXCEPT !.pc = "spawn", !.path = "pipe",
                                   !.created = TRUE, !.deferred = TRUE]
  /\ UNCHANGED OfferRest

\* ready := make(chan struct{}); go func() { select ... }()
OfferSpawn ==
  /\ offer.pc = "spawn"
  /\ offer' = [offer EXCEPT !.pc = "open", !.helper = "select"]
  /\ UNCHANGED OfferRest

\* The goroutine's select: the context's Done channel or ready.
OfferHelperSelect ==
  /\ offer.helper = "select"
  /\ \/ offer.ctxDone /\ offer' = [offer EXCEPT !.helper = "opening"]
     \/ offer.ready /\ offer' = [offer EXCEPT !.helper = "done"]
  /\ UNCHANGED OfferRest

\* The goroutine's os.Open(pipeFile): an error if nothing is at the path,
\* otherwise it waits until the pipe is open for writing.
OfferHelperOpen ==
  /\ offer.helper = "opening"
  /\ \/ offer.path = "absent" /\ offer' = [offer EXCEPT !.helper = "done"]
     \/ /\ offer.path = "pipe"
        /\ offer.fd
        /\ offer' = [offer EXCEPT !.helper = "closing",
                                  !.opened = offer.opened \cup {"helper"}]
  /\ UNCHANGED OfferRest

\* The goroutine's f.Close() and return.
OfferHelperClose ==
  /\ offer.helper = "closing"
  /\ offer' = [offer EXCEPT !.helper = "done"]
  /\ UNCHANGED OfferRest

\* f, err := os.OpenFile(pipeFile, os.O_WRONLY, fs.ModeNamedPipe): it fails,
\* or waits until the pipe is open for reading; a reader waiting in its own
\* open, the goroutine included, gets the pipe open at the same moment.
OfferOpen ==
  /\ offer.pc = "open"
  /\ \/ offer' = [offer EXCEPT !.pc = "return",
                               !.err = Wrap("open pipe", <<ErrOpenPipe>>)]
     \/ /\ offer.path = "pipe"
        /\ offer.reader \/ offer.helper = "opening"
        /\ offer' = [offer EXCEPT
             !.pc = "check", !.fd = TRUE,
             !.opened = (IF offer.reader THEN {"reader"} ELSE {})
                          \cup (IF offer.helper = "opening" THEN {"helper"} ELSE {}),
             !.helper = IF offer.helper = "opening" THEN "closing" ELSE @]
  /\ UNCHANGED OfferRest

\* offerKey that does not look at the context after the open.
OfferCheckSkipped ==
  /\ offer.pc = "check"
  /\ offer' = [offer EXCEPT !.pc = "ready"]
  /\ UNCHANGED OfferRest

\* else if err := env.Context().Err(); err != nil { f.Close(); return err }
OfferCheck ==
  /\ offer.pc = "check"
  /\ offer' = IF offer.ctxDone
              THEN [offer EXCEPT !.pc = "return", !.fd = FALSE,
                                 !.err = <<ErrCanceled>>]
              ELSE [offer EXCEPT !.pc = "ready"]
  /\ UNCHANGED OfferRest

\* close(ready)
OfferCloseReady ==
  /\ offer.pc = "ready"
  /\ offer' = [offer EXCEPT !.pc = "write", !.ready = TRUE]
  /\ UNCHANGED OfferRest

\* _, werr := f.Write(key) and errors.Join(werr, f.Close())
OfferWrite ==
  /\ offer.pc = "write"
  /\ \E ok \in BOOLEAN :
       offer' = [offer EXCEPT !.pc = "return", !.fd = FALSE, !.written = ok,
                  !.err = IF ok THEN NoErr
                          ELSE Wrap("offering key", <<ErrWrite>>)]
  /\ UNCHANGED OfferRest

\* The return of offerKey: the deferred os.Remove(pipeFile) runs if it was
\* registered.
OfferReturn ==
  /\ offer.pc = "return"
  /\ offer' = IF offer.deferred
              THEN [offer EXCEPT !.pc = "done", !.path = "absent",
                                 !.removed = (offer.path # "absent")]
              ELSE [offer EXCEPT !.pc = "done"]
  /\ UNCHANGED OfferRest

NextOffer ==
  \/ OfferKeyCall
  \/ OfferCancel
  \/ OfferReaderOpens
  \/ OfferStat
  \/ OfferMkfifo
  \/ OfferSpawn
  \/ OfferHelperSelect
  \/ OfferHelperOpen
  \/ OfferHelperClose
  \/ OfferOpen
  \/ OfferCheck
  \/ OfferCloseReady
  \/ OfferWrite
  \/ OfferReturn

SpecOffer == Init /\ [][NextOffer]_vars

\* The Go scheduler runs every goroutine that can take a step: each step of
\* offerKey and of its goroutine happens if it stays possible; the open of
\* the pipe returns once a reader is there; the command's deferred cancel()
\* runs once offerKey has returned. Signals, an outside reader and errors
\* of the system calls are under no obligation to happen.
OfferFairness ==
  /\ WF_vars(OfferKeyCall)
  /\ WF_vars(OfferStat)
  /\ WF_vars(OfferMkfifo)
  /\ WF_vars(OfferSpawn)
  /\ WF_vars(OfferOpen /\ offer'.pc = "check")
  /\ WF_vars(OfferCheck)
  /\ WF_vars(OfferCloseReady)
  /\ WF_vars(OfferWrite)
  /\ WF_vars(OfferReturn)
  /\ WF_vars(OfferHelperSelect)
  /\ WF_vars(OfferHelperOpen)
  /\ WF_vars(OfferHelperClose)
  /\ WF_vars(OfferCancel /\ offer.pc = "done")

SpecOfferFair == Init /\ [][NextOffer]_vars /\ OfferFairness

\* ------------------------------------------------------------ properties
Succeeded(c) == c.err = NoErr /\ ~c.panic

\* The packet layout of the package documentation: the format tag, the two
\* length bytes, and room for the salt and the nonce they declare.
WellFormed(b) ==
  /\ HasPrefix(b, magic)
  /\ Len(b) >= Len(magic) + 2
  /\ Len(magic) + 2 + b[Len(magic) + 1] + b[Len(magic) + 2] <= Len(b)

\* C1: after a successful Set(P, S), Encode and Parse of the encoded bytes,
\* Parse succeeds and Get(P) on the parsed container returns exactly S with
\* no error.
RoundTrip ==
  /\ story.stage # "parsefail"
  /\ (res.op = "Get" /\ story.stage = "parsed" /\ res.pass = story.pass)
       => (Succeeded(res) /\ res.val = story.secret)

RoundTripWitness ==
  /\ res.op = "Get"
  /\ story.stage = "parsed"
  /\ res.pass = story.pass
  /\ story.secret = <<>>
  /\ Len(sealLog) = 1

\* C2: a Get on a container whose salt or nonce is empty fails with
\* ErrNoKey and nothing else, returns no secret, and does not derive a key.
GetEmptyIsNoKey ==
  [][(res'.op = "Get" /\ (Len(f.salt) = 0 \/ Len(f.nonce) = 0))
       => /\ res'.err = <<ErrNoKey>>
          /\ ~ErrorsIs(res'.err, ErrBadPassphrase)
          /\ ~ErrorsIs(res'.err, ErrAuthFailed)
          /\ res'.val = <<>>
          /\ ~res'.panic
          /\ ~res'.kdf
          /\ res'.drew = <<>>]_vars

GetEmptyWitness ==
  /\ res.op = "Get"
  /\ Len(f.salt) = 0
  /\ Len(f.nonce) > 0
  /\ res.err = <<ErrNoKey>>
  /\ ~res.kdf

\* C3: after a successful Set(P1, S), Get(P2) with P2 # P1 returns no secret
\* and an error that errors.Is matches with ErrBadPassphrase.
WrongPassphraseIsBadPassphrase ==
  (res.op = "Get" /\ story.stage = "set" /\ res.pass # story.pass)
    => (res.val = <<>> /\ ErrorsIs(res.err, ErrBadPassphrase))

\* C4: Parse never panics: on every input it returns a container or an
\* error matching ErrBadPacket.
ParseNeverPanics ==
  res.op = "Parse"
    => (~res.panic /\ (res.err = NoErr \/ ErrorsIs(res.err, ErrBadPacket)))

\* C5: Parse accepts exactly the well-formed packets, with salt, nonce and
\* ciphertext the three regions of the input; every other input is rejected
\* with ErrBadPacket.
ParseAcceptsExactlyWellFormed ==
  res.op = "Parse"
    => LET b == res.arg
           slen == b[Len(magic) + 1]
           nlen == b[Len(magic) + 2]
       IN  IF WellFormed(b)
           THEN /\ Succeeded(res)
                /\ f.salt = Slice(b, 5, 5 + slen)
                /\ f.nonce = Slice(b, 5 + slen, 5 + slen + nlen)
                /\ f.data = Slice(b, 5 + slen + nlen, Len(b))
           ELSE ~res.panic /\ ErrorsIs(res.err, ErrBadPacket)

\* C6: for every input b that Parse accepts, Encode of the parsed container
\* is byte for byte b.
EncodeOfParsedIsInput ==
  (res.op = "Parse" /\ Succeeded(res)) => Encode(f) = res.arg

EncodeOfParsedWitness ==
  /\ res.op = "Parse"
  /\ Succeeded(res)
  /\ Len(f.salt) > 0
  /\ Len(f.nonce) > Len(f.salt)
  /\ Len(f.data) > 0

\* C7: for every container f the caller can hold (empty, parsed, set, or
\* left by a failed Set), Parse(f.Encode()) succeeds and yields a container
\* with the same salt, nonce and ciphertext.
ParseOfEncodedIsContainer ==
  LET r == Parse(Encode(f))
  IN  r.kind = "ok" /\ r.file.salt = f.salt /\ r.file.nonce = f.nonce
        /\ r.file.data = f.data

ParseOfEncodedWitness ==
  /\ res.op = "Set"
  /\ res.err = <<ErrRandRead>>
  /\ Len(f.salt) = keySaltBytes
  /\ Len(f.nonce) = gcmNonceSize
  /\ f.data = <<>>

\* C8 as stated: once the container has a salt, a later successful Set or
\* Random leaves the salt unchanged.
SaltStable ==
  [][(res'.op \in {"Set", "Random"} /\ Succeeded(res') /\ Len(f.salt) > 0)
       => f'.salt = f.salt]_vars

\* C8 amended: every successful Set or Random reads a new salt from the
\* random source, whether or not the container had one, and stores that
\* salt; with a source that never repeats, no two seals use the same salt.
\* Get and Encode leave the salt unchanged.
SaltRedrawnBySet ==
  [][/\ (res'.op = "Set" /\ Succeeded(res'))
          => /\ Len(res'.drew) = 2
             /\ f'.salt = RandBytes(res'.drew[1], keySaltBytes)
     /\ (res'.op = "Random" /\ Succeeded(res'))
          => /\ Len(res'.drew) = 3
             /\ f'.salt = RandBytes(res'.drew[2], keySaltBytes)
     /\ (res'.op \in {"Set", "Random"} /\ Succeeded(res'))
          => /\ sealLog' # <<>>
             /\ sealLog'[Len(sealLog')].key.salt = f'.salt
     /\ fresh => \A i, j \in 1..Len(sealLog') :
                   i < j => sealLog'[i].key.salt # sealLog'[j].key.salt
     /\ (res'.op \in {"Get", "Encode"}) => f'.salt = f.salt]_vars

SaltRedrawnWitness ==
  /\ res.op = "Set"
  /\ Succeeded(res)
  /\ res.had
  /\ fresh
  /\ Len(sealLog) = 2
  /\ sealLog[1].key.salt # f.salt

\* C9: with a random source that never repeats, every successful Set or
\* Random stores a nonce read from the source during that call, and two
\* seals never have the same nonce, the same ciphertext or the same
\* (key, nonce) pair, also when passphrase and secret are the same.
NonceFresh ==
  fresh =>
    /\ (res.op \in {"Set", "Random"} /\ Succeeded(res))
         => /\ res.drew # <<>>
            /\ f.nonce = RandBytes(res.drew[Len(res.drew)], gcmNonceSize)
            /\ sealLog # <<>>
            /\ f.nonce = sealLog[Len(sealLog)].nonce
            /\ f.data = sealLog[Len(sealLog)].ct
    /\ \A i, j \in 1..Len(sealLog) :
         i < j => /\ sealLog[i].nonce # sealLog[j].nonce
                  /\ sealLog[i].ct # sealLog[j].ct
                  /\ <<sealLog[i].key, sealLog[i].nonce>>
                       # <<sealLog[j].key, sealLog[j].nonce>>

NonceFreshWitness ==
  /\ fresh
  /\ res.op = "Set"
  /\ Succeeded(res)
  /\ res.had
  /\ Len(sealLog) = 2
  /\ sealLog[1].key.pass = sealLog[2].key.pass
  /\ sealLog[1].pt = sealLog[2].pt

\* C10: Get leaves salt, nonce and ciphertext unchanged, whether it succeeds
\* or fails, and reads nothing from the random source.
GetIsObserver ==
  [][res'.op = "Get" => (f' = f /\ res'.drew = <<>> /\ rnd' = rnd)]_vars

GetIsObserverWitness ==
  /\ res.op = "Get"
  /\ Len(f.salt) = 0
  /\ Len(f.nonce) > 0

\* C11 as stated: a Set or Random that returns an error leaves salt, nonce
\* and ciphertext as they were before the call, so that a Get that succeeded
\* before still returns the same secret.
NoPartialWrites ==
  [][(res'.op \in {"Set", "Random"} /\ res'.err # NoErr)
       => /\ f' = f
          /\ \A p \in Passphrases :
               Get(f', p, Failed, Range(sealLog')).val
                 = Get(f, p, Failed, Range(sealLog)).val]_vars

RandomReturnsWhatItStores ==
  [][/\ res'.op = "Random"
          => IF res'.n <= 0
             THEN res'.err = <<ErrInvalidSize>> /\ res'.val = <<>> /\ ~res'.panic
             ELSE IF Succeeded(res')
             THEN Len(res'.val) = res'.n
             ELSE res'.val = <<>> /\ ErrorsIs(res'.err, ErrRandRead)
     /\ (res.op = "Random" /\ Succeeded(res) /\ res'.op = "Get"
           /\ res'.pass = res.pass)
          => (Succeeded(res') /\ res'.val = res.val /\ Len(res'.val) = res.n)]_vars

\* A Get that returned the bytes of a Random: they are no secret that Set
\* was given.
RandomReturnsWitness ==
  /\ res.op = "Get"
  /\ Succeeded(res)
  /\ story.stage = "set"
  /\ res.val = story.secret
  /\ res.val \notin Secrets
  /\ Len(res.val) = MaxRandom

\* C14: after any sequence of successful Set and Random calls, Get with the
\* passphrase of the last call returns the secret of the last call, Get with
\* another passphrase (one of an earlier call included) fails, and a Get
\* never returns the secret of an earlier call.
LastSetWins ==
  (res.op = "Get" /\ story.stage = "set")
    => /\ IF res.pass = story.pass
          THEN Succeeded(res) /\ res.val = story.secret
          ELSE res.val = <<>> /\ res.err # NoErr
       /\ sealLog # <<>>
       /\ sealLog[Len(sealLog)].pt = story.secret
       /\ \A i \in 1..(Len(sealLog) - 1) :
            (Succeeded(res) /\ res.val = sealLog[i].pt)
              => sealLog[i].pt = story.secret

\* A Get with the passphrase of the first of two seals, after a second seal
\* under another passphrase and with another secret.
LastSetWinsWitness ==
  /\ res.op = "Get"
  /\ story.stage = "set"
  /\ Len(sealLog) = 2
  /\ sealLog[1].key.pass # sealLog[2].key.pass
  /\ sealLog[1].pt # sealLog[2].pt
  /\ res.pass = sealLog[1].key.pass
  /\ res.err # NoErr

\* C15: Encode returns 5 + len(salt) + len(nonce) + len(ciphertext) bytes:
\* the magic tag, a byte equal to len(salt), a byte equal to len(nonce), the
\* salt, the nonce and the ciphertext in that order; it leaves the container
\* as it was.
EncodeLayout ==
  [][res'.op = "Encode"
       => LET b == res'.val
              slen == Len(f.salt)
              nlen == Len(f.nonce)
          IN  /\ Len(b) = 5 + slen + nlen + Len(f.data)
              /\ Slice(b, 0, 3) = magic
              /\ b[4] = slen
              /\ b[5] = nlen
              /\ Slice(b, 5, 5 + slen) = f.salt
              /\ Slice(b, 5 + slen, 5 + slen + nlen) = f.nonce
              /\ Slice(b, 5 + slen + nlen, Len(b)) = f.data
              /\ Succeeded(res')
              /\ f' = f]_vars

\* Encode of a container whose salt, nonce and ciphertext all differ in
\* length.
EncodeLayoutWitness ==
  /\ res.op = "Encode"
  /\ Len(f.salt) = keySaltBytes
  /\ Len(f.nonce) = gcmNonceSize
  /\ Len(f.data) > gcmTagSize
  /\ Len(res.val) = 5 + keySaltBytes + gcmNonceSize + Len(f.data)

\* C16: after Set(P, S), Encode, a change of one byte of the salt, nonce or
\* ciphertext region, and Parse, Get never returns a secret, and Get(P)
\* returns the error that Get with a wrong passphrase returns on the
\* container as Set left it.
TamperIsWrongPassphrase ==
  (res.op = "Get" /\ story.stage = "tampered")
    => /\ res.val = <<>>
       /\ sealLog # <<>>
       /\ res.pass = story.pass
            => LET e == sealLog[Len(sealLog)]
                   orig == File(e.key.salt, e.nonce, e.ct)
               IN  /\ ~res.panic
                   /\ res.err # NoErr
                   /\ Get(orig, story.pass, Failed, Range(sealLog)).val = story.secret
                   /\ \A p \in Passphrases \ {story.pass} :
                        res.err = Get(orig, p, Failed, Range(sealLog)).err

\* Get(P) on a container parsed from a packet whose nonce was changed.
TamperWitness ==
  /\ res.op = "Get"
  /\ story.stage = "tampered"
  /\ res.pass = story.pass
  /\ sealLog # <<>>
  /\ f.salt = sealLog[Len(sealLog)].key.salt
  /\ f.nonce # sealLog[Len(sealLog)].nonce
  /\ f.data = sealLog[Len(sealLog)].ct
  /\ ErrorsIs(res.err, ErrAuthFailed)

\* The stages of LoadKey in the order of its code.
LoadStages == <<"read", "parse", "pf", "get">>

\* C17 as stated: LoadKey runs read, Parse, provider, Get in that order and
\* calls the provider exactly once per call.
ProviderExactlyOnce ==
  /\ lk.stages = SubSeq(LoadStages, 1, Len(lk.stages))
  /\ lk.pc = "done" => lk.pfCalls = 1

\* C17 amended: the stages that run are an initial part of read, Parse,
\* provider, Get, in that order; the provider is called at most once per
\* call: once if the file was read and Parse accepted it, and not at all if
\* the read or Parse failed.
ProviderAtMostOnce ==
  /\ lk.stages = SubSeq(LoadStages, 1, Len(lk.stages))
  /\ lk.pfCalls <= 1
  /\ lk.pc = "done"
       => lk.pfCalls = IF lk.file.exists /\ Parse(lk.file.data).kind = "ok"
                       THEN 1 ELSE 0
  /\ (lk.pc = "done" /\ lk.pfCalls = 1 /\ lk.pf.err = NoErr)
       => lk.stages = LoadStages

\* LoadKey returned the error of Parse without calling the provider.
ProviderAtMostOnceWitness ==
  /\ lk.pc = "done"
  /\ lk.file.exists
  /\ ErrorsIs(lk.err, ErrBadPacket)
  /\ lk.stages = <<"read", "parse">>
  /\ lk.pfCalls = 0

\* C18 as stated: LoadKey stops at the first failing stage, no later stage
\* runs, and the error it returns has the class of that stage (not found,
\* ErrBadPacket, the provider's error, ErrNoKey, ErrBadPassphrase) under a
\* context that names the stage.
LoadKeyErrorOfStage ==
  lk.pc = "done"
    => /\ ~lk.panic
       /\ ~lk.file.exists => lk.stages = <<"read">>
       /\ (lk.file.exists /\ Parse(lk.file.data).kind # "ok")
            => lk.stages = <<"read", "parse">>
       /\ lk.err # NoErr
            => LET stage == lk.stages[Len(lk.stages)]
               IN  /\ lk.val = <<>>
                   /\ Len(lk.err) >= 2
                   /\ stage = "read" => ErrorsIs(lk.err, ErrNotExist)
                   /\ stage = "parse" => ErrorsIs(lk.err, ErrBadPacket)
                   /\ stage = "pf" => lk.err = Wrap(lk.err[1], lk.pf.err)
                   /\ stage = "get"
                        => IF Len(lk.kf.salt) = 0 \/ Len(lk.kf.nonce) = 0
                           THEN ErrorsIs(lk.err, ErrNoKey)
                           ELSE ErrorsIs(lk.err, ErrBadPassphrase)

\* C19 as stated: the command-line tool accepts an empty passphrase exactly
\* when the empty-ok flag is set: without the flag an empty passphrase is
\* rejected with an error, with the flag it is returned to the caller.
EmptyOnlyIfEmptyOK ==
  (gp.fn # "none" /\ gp.typed[1].err = NoErr /\ gp.typed[1].pp = <<>>)
    => IF gp.emptyOK
       THEN (gp.confirm => gp.typed[2] = gp.typed[1])
              => (gp.err = NoErr /\ ~gp.fatal /\ gp.pp = <<>>)
       ELSE gp.err # NoErr

\* C20: when offerKey has returned, the pipe has been removed exactly if
\* this call created it; a pipe that was there on entry is still there; and
\* on a path that is there and is not a pipe the call fails and nothing is
\* created, written or removed, at any moment of the call.
OfferCleanup ==
  /\ offer.pc = "done"
       => /\ offer.removed <=> offer.created
          /\ offer.created => (offer.path0 = "absent" /\ offer.path = "absent")
          /\ ~offer.created => offer.path = offer.path0
  /\ offer.path0 = "pipe"
       => (offer.path = "pipe" /\ ~offer.created /\ ~offer.removed)
  /\ offer.path0 = "file"
       => /\ offer.path = "file"
          /\ ~offer.created
          /\ ~offer.removed
          /\ ~offer.written
          /\ ~offer.fd
          /\ offer.pc = "done" => offer.err # NoErr

\* offerKey returned after it wrote the key to a pipe it had created.
OfferCleanupWitness ==
  /\ offer.pc = "done"
  /\ offer.created
  /\ offer.removed
  /\ offer.written
  /\ offer.path = "absent"

\* C21: after every successful Set(P, S) or Random the container has a salt
\* of 16 bytes, a nonce of 12 bytes and a ciphertext of len(S) bytes plus
\* the 16-byte tag.
PopulatedSizes ==
  (res.op \in {"Set", "Random"} /\ Succeeded(res))
    => LET secret == IF res.op = "Set" THEN res.arg ELSE res.val
       IN  /\ Len(f.salt) = keySaltBytes
           /\ Len(f.nonce) = gcmNonceSize
           /\ Len(f.data) = Len(secret) + gcmTagSize

PopulatedSizesWitness ==
  /\ res.op = "Random"
  /\ Succeeded(res)
  /\ res.had
  /\ Len(res.val) = MaxRandom
  /\ Len(f.data) = MaxRandom + gcmTagSize

\* C22: the key is written only to a pipe that an outside reader has open.
\* If the context ended before offerKey had the pipe open (so before any
\* reader's open could complete), then in every interleaving the key is
\* never written, offerKey returns an error, and once its open of the pipe
\* has succeeded the error it returns is the context's.
OfferOnlyToReader ==
  /\ offer.written => ("reader" \in offer.opened /\ offer.reader)
  /\ offer.early
       => /\ ~offer.written
          /\ offer.pc \notin {"ready", "write"}
          /\ offer.pc = "done" => offer.err # NoErr
          /\ (offer.pc = "done" /\ offer.opened # {}) => offer.err = <<ErrCanceled>>

\* offerKey returned the context's error after its open was released by the
\* goroutine alone.
OfferOnlyToReaderWitness ==
  /\ offer.pc = "done"
  /\ offer.early
  /\ offer.opened = {"helper"}
  /\ ~offer.reader
  /\ offer.err = <<ErrCanceled>>
  /\ ~offer.written

\* C23 as stated: under fair scheduling, once a reader has opened the pipe
\* or the context has ended, offerKey returns and its goroutine terminates,
\* also when the open of the pipe for writing fails.
OfferTerminates ==
  (offer.pc \notin {"idle", "stat", "mkfifo", "spawn"}
     /\ (offer.reader \/ offer.ctxDone))
    ~> (offer.pc = "done" /\ offer.helper \in {"none", "done"})

\* What the key file d gives for the passphrase pp.
Decrypts(d, pp) ==
  LoadKey(d, PromptResult(pp, NoErr, FALSE, <<>>))

\* The steps before the save, without the confirmation: no error, the new
\* passphrase read, for rekey the old file read and decrypted with the old
\* passphrase, Set or Random done; and the saved file holds the secret under
\* the new passphrase.
SavedAfterSteps ==
  /\ cli.err = NoErr /\ ~cli.fatal /\ ~cli.panic
  /\ cli.typedNew[1].err = NoErr
  /\ cli.pp = cli.typedNew[1].pp
  /\ cli.keyed
  /\ cli.cmd = "rekey"
       => /\ cli.loaded
          /\ cli.typedOld[1].err = NoErr
          /\ Decrypts(cli.disk0, cli.typedOld[1].pp).err = NoErr
          /\ cli.old = Decrypts(cli.disk0, cli.typedOld[1].pp).val
          /\ cli.secret = cli.old
  /\ Decrypts(cli.disk, cli.pp).err = NoErr
  /\ Decrypts(cli.disk, cli.pp).val = cli.secret

\* C24 as stated: set, rekey and random replace the key file only after the
\* passphrase was entered twice with both entries equal and every other
\* earlier step succeeded; otherwise the file is left as it was; after a
\* rekey the file gives the old secret under the new passphrase.
SaveAfterConfirmation ==
  /\ cli.saved
       => /\ SavedAfterSteps
          /\ cli.asked = 2
          /\ Len(cli.typedNew) = 2
          /\ cli.typedNew[2] = cli.typedNew[1]
  /\ ~cli.saved => cli.disk = cli.disk0

\* C24 amended: as stated for the command-based tool; the flag-based tool
\* asks for the new passphrase once, without confirmation, and otherwise
\* replaces the file under the same conditions.
SaveAfterSteps ==
  /\ cli.saved
       => /\ SavedAfterSteps
          /\ IF cli.tool = "cmd"
             THEN cli.asked = 2 /\ cli.typedNew[2] = cli.typedNew[1]
             ELSE cli.asked = 1
  /\ ~cli.saved => cli.disk = cli.disk0
  /\ (cli.err # NoErr \/ cli.fatal \/ cli.panic) => ~cli.saved

\* A rekey of the command-based tool that changed the passphrase.
SaveAfterStepsWitness ==
  /\ cli.saved
  /\ cli.tool = "cmd"
  /\ cli.cmd = "rekey"
  /\ cli.pp # cli.typedOld[1].pp
  /\ cli.disk # cli.disk0
  /\ cli.secret = Secret(MaxSecret)

\* C25: in every state reachable through New, Parse, Set and Random the
\* salt and the nonce are at most 255 bytes long, so the length bytes that
\* Encode writes are the true lengths and the packet is as long as its
\* length bytes and its ciphertext say.
LengthsFitOneByte ==
  LET b == Encode(f)
  IN  /\ Len(f.salt) <= 255
      /\ Len(f.nonce) <= 255
      /\ b[Len(magic) + 1] = Len(f.salt)
      /\ b[Len(magic) + 2] = Len(f.nonce)
      /\ Len(b) = Len(magic) + 2 + b[Len(magic) + 1] + b[Len(magic) + 2] + Len(f.data)

\* An encoded container that Set filled after it had been parsed.
LengthsFitWitness ==
  /\ res.op = "Encode"
  /\ story.stage = "set"
  /\ res.val[Len(magic) + 1] = keySaltBytes
  /\ res.val[Len(magic) + 2] = gcmNonceSize
  /\ Len(sealLog) = 2

\* C26: Random with nbytes <= 0 fails with the invalid-size error before it
\* touches the container: salt, nonce and ciphertext are unchanged, nothing
\* is read from the random source or sealed, and a secret stored earlier is
\* still what Get returns for its passphrase.
RandomRejectsBeforeTouching ==
  [][(res'.op = "Random" /\ res'.n <= 0)
       => /\ res'.err = <<ErrInvalidSize>>
          /\ res'.val = <<>>
          /\ f' = f
          /\ res'.drew = <<>>
          /\ rnd' = rnd
          /\ sealLog' = sealLog
          /\ story' = story
          /\ (story.stage = "set"
                => LET g == Get(f', story.pass, Failed, Range(sealLog'))
                   IN  g.err = NoErr /\ g.val = story.secret)]_vars

\* Random was refused on a container that holds a non-empty secret.
RandomRejectsWitness ==
  /\ res.op = "Random"
  /\ res.n <= 0
  /\ story.stage = "set"
  /\ story.secret # <<>>
  /\ Len(f.data) > 0

\* ------------------------------------------------- the KF\x01 File in use
RestV1 == <<fileVars, lk, gp, offer, cli, mk>>

\* What the k-th read of a call does if the call gets to it: it fails, or it
\* delivers the source's next bytes.
ReadsV1(k) == {Failed, [ok |-> TRUE, seed |-> k1.draws + k]}

\* The effect of a call with outcome o; stored is what the caller knows to
\* be stored after it.
ApplyV1(op, pass, arg, n, o, stored) ==
  /\ k1' = [f |-> o.f, op |-> op, pass |-> pass, arg |-> arg, n |-> n,
            val |-> o.val, err |-> o.err,
            draws |-> IF o.drew # <<>> THEN o.drew[Len(o.drew)] + 1 ELSE k1.draws,
            stored |-> stored]
  /\ UNCHANGED RestV1

NewV1Op ==
  ApplyV1("New", <<>>, <<>>, 0, OutcomeV1(NewV1, <<>>, NoErr, <<>>), NoSecretV1)

\* Packets for Parse: the shortest valid one, one byte less, one with an
\* initialization vector, a salt and a one-byte payload, one for each way a
\* length can be wrong, and one of the later format.
PacketsV1 ==
  {magicV1 \o <<0, 0>> \o PacketBody(4),
   magicV1 \o <<0, 0>> \o PacketBody(3),
   magicV1 \o <<1, 1>> \o PacketBody(7),
   magicV1 \o <<3, 0>> \o PacketBody(2),
   magicV1 \o <<1, 2>> \o PacketBody(2),
   magicV1 \o <<0>>,
   magic \o <<0, 0>> \o PacketBody(4)}

\* Parse of one of the packets or of the bytes Encode just returned. The
\* caller holds the parsed File, or keeps the old one if Parse fails.
ParseV1Op ==
  \E b \in PacketsV1 \cup (IF k1.op = "Encode" THEN {k1.val} ELSE {}) :
    LET r == ParseV1(b)
    IN  ApplyV1("Parse", <<>>, b, 0,
                OutcomeV1(IF r.ok THEN r.file ELSE k1.f, <<>>, r.err, <<>>),
                IF r.ok /\ r.file # k1.f THEN NoSecretV1 ELSE k1.stored)

EncodeV1Op ==
  ApplyV1("Encode", <<>>, <<>>, 0,
          OutcomeV1(k1.f, EncodeV1(k1.f), NoErr, <<>>), k1.stored)

GetV1Op ==
  \E p \in Passphrases :
    ApplyV1("Get", p, <<>>, 0, GetV1(k1.f, p), k1.stored)

SetV1Op ==
  /\ k1.draws + 3 <= MaxDraws
  /\ \E p \in Passphrases, s \in Secrets, rs \in ReadsV1(0), ri \in ReadsV1(1) :
       LET o == SetV1(k1.f, p, s, rs, ri)
       IN  ApplyV1("Set", p, s, 0, o,
                   IF o.err = NoErr
                   THEN [ok |-> TRUE, pass |-> p, secret |-> s]
                   ELSE NoSecretV1)

RandomV1Op ==
  /\ k1.draws + 3 <= MaxDraws
  /\ \E p \in Passphrases, n \in {0, MaxRandom}, rx \in ReadsV1(0),
        rs \in ReadsV1(1), ri \in ReadsV1(2) :
       LET o == RandomV1(k1.f, p, n, rx, rs, ri)
       IN  ApplyV1("Random", p, <<>>, n, o,
                   IF o.err = NoErr
                   THEN [ok |-> TRUE, pass |-> p, secret |-> o.val]
                   ELSE IF o.f = k1.f THEN k1.stored ELSE NoSecretV1)

NextV1 ==
  \/ NewV1Op
  \/ ParseV1Op
  \/ EncodeV1Op
  \/ GetV1Op
  \/ SetV1Op
  \/ RandomV1Op

SpecV1 == Init /\ [][NextV1]_vars

\* A packet with the format tag, an initialization vector and a salt as long
\* as their length bytes say, and at least four bytes after them.
AcceptableV1(b) ==
  /\ HasPrefix(b, magicV1)
  /\ Len(b) >= Len(magicV1) + 2
  /\ Len(magicV1) + 2 + b[Len(magicV1) + 1] <= Len(b)
  /\ Len(magicV1) + 2 + b[Len(magicV1) + 1] + b[Len(magicV1) + 2] + 4 <= Len(b)

\* C27: in the KF\x01 package Get returns ErrNoKey only when no secret is
\* stored; after a successful Set(P, S), for any S including the empty one,
\* Get(P) returns S; and Parse accepts a packet exactly when it has the
\* format tag, lengths that fit and at least the four bytes of the CRC, so
\* no packet shorter than 9 bytes.
GetV1ReturnsStored ==
  /\ (k1.op = "Get" /\ ErrorsIs(k1.err, ErrNoKey)) => ~k1.stored.ok
  /\ (k1.op = "Get" /\ k1.stored.ok /\ k1.pass = k1.stored.pass)
       => (k1.err = NoErr /\ k1.val = k1.stored.secret)
  /\ k1.op = "Parse"
       => /\ (k1.err = NoErr) <=> AcceptableV1(k1.arg)
          /\ k1.err = NoErr => Len(k1.arg) >= 9

\* ----------------------------------------------- the multi-key File in use
RestPb == <<fileVars, lk, gp, offer, cli, k1>>

\* What the k-th read of a call does if the call gets to it: it fails, or it
\* delivers bytes, the same for each initialization vector and others for a
\* salt.
ReadsPb(k) == {Failed, [ok |-> TRUE, seed |-> k]}

\* What the read for the salt does; it happens only if there is no salt yet.
SaltReadsPb(k) == IF Len(mk.f.salt) = 0 THEN ReadsPb(k) ELSE {Failed}

\* The effect of a call on slug with outcome o and boolean result ok;
\* stored is what the caller knows to be stored after it.
ApplyPb(op, slug, arg, o, ok, stored) ==
  /\ mk' = [f |-> o.f, op |-> op, slug |-> slug, arg |-> arg, val |-> o.val,
            ok |-> ok, err |-> o.err,
            stored |-> stored]
  /\ UNCHANGED RestPb

NewPbOp ==
  ApplyPb("New", <<>>, <<>>, OutcomePb(NewPb(mk.f.pass), <<>>, NoErr, <<>>),
          FALSE, NoSecretsPb)

SlugsOp ==
  ApplyPb("Slugs", <<>>, <<>>, OutcomePb(mk.f, Slugs(mk.f), NoErr, <<>>),
          FALSE, mk.stored)

HasOp ==
  \E slug \in SlugSet :
    ApplyPb("Has", slug, <<>>, OutcomePb(mk.f, <<>>, NoErr, <<>>),
            Has(mk.f, slug), mk.stored)

GetPbOp ==
  \E slug \in SlugSet, rs \in SaltReadsPb(1) :
    ApplyPb("Get", slug, <<>>, GetPb(mk.f, slug, rs), FALSE, mk.stored)

SetPbOp ==
  \E slug \in SlugSet, s \in Secrets, ri \in ReadsPb(0), rs \in SaltReadsPb(1) :
    LET o == SetPb(mk.f, slug, s, ri, rs)
    IN  ApplyPb("Set", slug, s, o, FALSE,
                [mk.stored EXCEPT ![slug] = [ok |-> o.err = NoErr,
                   secret |-> IF o.err = NoErr THEN s ELSE <<>>]])

RemoveOp ==
  \E slug \in SlugSet :
    LET r == Remove(mk.f, slug)
    IN  ApplyPb("Remove", slug, <<>>, OutcomePb(r.f, <<>>, NoErr, <<>>), r.ok,
                [mk.stored EXCEPT ![slug] = [ok |-> FALSE, secret |-> <<>>]])

NextPb ==
  \/ NewPbOp
  \/ SlugsOp
  \/ HasOp
  \/ GetPbOp
  \/ SetPbOp
  \/ RemoveOp

SpecPb == Init /\ [][NextPb]_vars

\* The slug list s is in ascending order, so that no slug occurs twice.
Ascending(s) == \A i \in 1..(Len(s) - 1) : StrLess(s[i], s[i + 1])

\* What Get returns for the slug, apart from the File.
Answer(g, slug) ==
  LET o == GetPb(g, slug, Failed) IN [val |-> o.val, err |-> o.err]

\* C28: after any Set and Remove on a File from New, Slugs() lists each
\* stored slug exactly once and in ascending order; Set on an existing slug
\* replaces its value and adds no entry; Remove(slug) returns true exactly
\* when the slug was present, after it Has(slug) is false and Get(slug) fails
\* with ErrNoSuchKey, and the other slugs are as they were.
SlugsSortedRemoveExact ==
  [][/\ Ascending(Slugs(mk'.f))
     /\ \A s \in SlugSet :
          mk'.stored[s].ok => \E i \in 1..Len(mk'.f.keys) : Slugs(mk'.f)[i] = s
     /\ mk'.op = "Slugs" => mk'.val = Slugs(mk'.f)
     /\ (mk'.op = "Set" /\ Has(mk.f, mk'.slug))
          => /\ Slugs(mk'.f) = Slugs(mk.f)
             /\ mk'.err = NoErr
                  => Answer(mk'.f, mk'.slug) = [val |-> mk'.arg, err |-> NoErr]
     /\ (mk'.op = "Set" /\ ~Has(mk.f, mk'.slug))
          => Len(mk'.f.keys) = Len(mk.f.keys) + 1
     /\ mk'.op = "Remove"
          => /\ mk'.ok = Has(mk.f, mk'.slug)
             /\ ~Has(mk'.f, mk'.slug)
             /\ ErrorsIs(Answer(mk'.f, mk'.slug).err, ErrNoSuchKey)
             /\ \A t \in SlugSet \ {mk'.slug} :
                  /\ Has(mk'.f, t) = Has(mk.f, t)
                  /\ Answer(mk'.f, t) = Answer(mk.f, t)]_vars

\* Remove took the middle one of three stored slugs, which were set in
\* descending order.
SlugsSortedWitness ==
  /\ mk.op = "Remove"
  /\ mk.ok
  /\ mk.slug = SlugSeq[2]
  /\ Slugs(mk.f) = <<SlugSeq[1], SlugSeq[3]>>
  /\ mk.stored[SlugSeq[1]].ok
  /\ mk.stored[SlugSeq[3]].ok
  /\ mk.stored[SlugSeq[3]].secret # <<>>

====
